---- MODULE Spec2Model ----
(***************************************************************************)
(* Noise-Alert (src/noise_alert.py): the concurrent monitoring engine.     *)
(*                                                                         *)
(* Three threads share state:                                              *)
(*   - the Tk main thread ("ui"): poll_ui, start, stop, push_settings,     *)
(*     on_threshold_change, the push_job timer;                            *)
(*   - the WebServerThread ("http"): one request at a time through         *)
(*     handle_request: get_state, set_threshold, start_monitoring_web,     *)
(*     stop_monitoring_web;                                                *)
(*   - the Monitor thread: Monitor.run.                                    *)
(* Every step of the model is one access to something another thread can   *)
(* see (a SharedState field, the lock, q_cmd, q_ui, stop_evt, the thread's *)
(* liveness), together with the thread-private work around it.             *)
(***************************************************************************)
EXTENDS Integers, Sequences, FiniteSets, TLC

\* ---- bounds of the model --------------------------------------------------
MaxQUi == 1        \* most events waiting in q_ui
MaxQCmd == 1       \* most settings snapshots waiting in q_cmd
MaxReq == 2        \* start/stop requests counted between two consumptions
MaxQLevels == 2     \* most events waiting in q_ui where their order is recorded
MaxRemote == 2      \* set_threshold requests in a run that records them
MaxMsgs == 3       \* send_message requests in a run
MaxMs == 60        \* longest tone, in ms, gen_wave is applied to
MaxBuf == 3        \* most samples in a buffer the level is computed of
MaxQSnaps == 2     \* most snapshots waiting in q_cmd where the drains are recorded
CalSpan == 12      \* ambient levels tried around -60 and -37.5 dB, in 0.01 dB

\* ---- program constants ----------------------------------------------------
InitThresh == -30      \* cfg.get("thresh", -30.0)
InitDb == -100         \* SharedState.current_db
NoDb == InitDb         \* db of Monitor.run before the cycle's capture

\* ---- input domains --------------------------------------------------------
ThreshVals == {-30, -20}            \* thresholds a control surface sends
DbVals == {-25, -20}                \* levels a capture yields
Shapes == {"Sine", "Square"}        \* shape_combo values used here

NoSettings == [thresh |-> 0, shape |-> "none"]     \* settings = {}

\* a message text, as far as strip() and len() see it: lead whitespace
\* characters, then core characters of which the first and the last are not
\* whitespace, then trail whitespace characters; tag tells the requests apart
MaxMsgLen == 500                    \* if len(message) > 500
CoreLens == {0, 1, MaxMsgLen, MaxMsgLen + 1}
PadLens == {0, 1}
NoMsg == [tag |-> 0, lead |-> 0, core |-> 0, trail |-> 0]
NoRes == [success |-> FALSE, error |-> "unset"]

VARIABLES
    \* SharedState
    threshold, is_monitoring, current_db,
    web_start_requested, web_stop_requested,
    lock,               \* "free", "ui" or "http": who holds SharedState.lock
    \* Tk main thread
    ui_pc, ui_stack,    \* where the main thread is, and where its calls return
    ui_upd,             \* the update_* call in progress: field and value
    start_req, stop_req,\* poll_ui's locals, from check_web_requests
    th_var, shape_var,  \* the threshold scale's and shape combo's variables
    push_job,           \* a root.after(250, push_settings) is pending
    status_label, start_btn, stop_btn,
    q_cmd, q_ui,
    \* Monitor thread
    mon_pc, stop_evt, settings, mon_db,
    \* WebServerThread
    http_pc, http_arg, http_snap,
    \* history (not program state)
    cyc,                \* what the monitor's current cycle has done so far
    req,                \* start/stop requests and consumptions so far
    err,                \* capture errors and what followed them
    last_put,           \* the snapshot most recently put into q_cmd
    focus,              \* which histories this run records
    stp,                \* what the monitor has done since stop() set stop_evt
    lvl,                \* the last level put into q_ui, and the one at the
                        \* moment poll_ui last found q_ui empty
    rem,                \* the last threshold written by set_threshold
    \* speech: SharedState.tts_engine / tts_queue, the TTSWorker thread, the
    \* send_message handler's locals, and the history of the messages
    tts_engine, tts_queue, tts_pc, tts_msg, http_msg, http_res, sp,
    stop_event,         \* TTSWorker.stop_event is set
    \* calibrate: the "Auto Calibration" window is open; the dialog that
    \* messagebox has shown last; what the calibration capture has yielded
    calib_window, messagebox, rec_flat,
    \* history of the later claims
    nop,                \* the stop() poll_ui runs for a stop request made
                        \* while nothing was monitoring
    drn,                \* the snapshots in q_cmd and the monitor's drains
    ovl,                \* which Monitor loop is using an audio stream
    \* a pure function applied to an input: gen_wave, the level computation
    fn

sharedVars == <<threshold, is_monitoring, current_db,
                web_start_requested, web_stop_requested, lock>>
uiVars == <<ui_pc, ui_stack, ui_upd, start_req, stop_req, th_var, shape_var,
            push_job, status_label, start_btn, stop_btn, calib_window,
            messagebox, rec_flat>>
calVars == <<calib_window, messagebox, rec_flat>>
queueVars == <<q_cmd, q_ui>>
monVars == <<mon_pc, stop_evt, settings, mon_db>>
httpVars == <<http_pc, http_arg, http_snap>>
histVars == <<cyc, req, err, last_put, focus, stp, lvl, rem, nop, drn, ovl>>
hist3 == <<nop, drn, ovl>>
ttsVars == <<tts_engine, tts_queue, tts_pc, tts_msg, http_msg, http_res, sp,
             stop_event>>
vars == <<sharedVars, uiVars, queueVars, monVars, httpVars, histVars, ttsVars,
          fn>>

\* the new value of a history variable: recorded only in the runs that
\* record this history
Hist(name, new, old) == IF name \in focus THEN new ELSE old

\* the room in q_ui (a queue.Queue() without maxsize) in this run
QUiCap == IF "lvl" \in focus THEN MaxQLevels ELSE MaxQUi
\* the room in q_cmd (a queue.Queue() without maxsize) in this run
QCmdCap == IF "drn" \in focus THEN MaxQSnaps ELSE MaxQCmd

Abs(x) == IF x < 0 THEN -x ELSE x
Inc(n, cap) == IF n < cap THEN n + 1 ELSE cap

\* threading.Thread.is_alive(): started and run() not yet returned
MonitorAlive == mon_pc \notin {"none", "created", "dead"}

\* the main thread is between acquiring and releasing the lock in
\* check_web_requests
UiInCheck == ui_pc \in {"cw_rd_s", "cw_rd_t", "cw_clr_s", "cw_clr_t"}

\* no update_* call in progress
NoUpd == [f |-> "none", v |-> 0]

\* no get_state snapshot in the making
NoSnap == [threshold |-> 0, is_monitoring |-> FALSE, current_db |-> 0]

NewCycle == [db |-> 0, tones |-> 0, errs |-> 0, toneFail |-> FALSE,
             held |-> NoSettings, last |-> NoSettings,
             usedThresh |-> 0, usedShape |-> "none"]
\* req, about the check_web_requests calls and the requests around them:
\*   nS, nT   start/stop requests written since the last call returned, while
\*            no call held the lock (counted up to MaxReq)
\*   dS, dT   a start/stop request was written while the call now executing
\*            holds the lock
\*   undS, undT  a request was written and no call has read it yet
\* of the call that has just returned (kept until poll_ui uses its result):
\*   ret      it has just returned
\*   res      what it returned
\*   cS, cT   the nS, nT it began with
\*   qS, qT   no start/stop request was written while it held the lock
\*   base     no request was written while the call before it held the lock
\*            (so both flags were false when that call returned)
\*   kS, kT   the call before it began with some start/stop request written
\*            and none was written during it
\*   pfirst   the call before it followed exactly one request, of this kind,
\*            made with both flags false, and none was written during it
\* of the last call, once poll_ui has used its result:
\*   lq, lS, lT, lfirst   what base, kS, kT, pfirst will be for the next call
NoCall == [ret |-> FALSE, res |-> <<FALSE, FALSE>>, cS |-> 0, cT |-> 0,
           qS |-> TRUE, qT |-> TRUE, base |-> TRUE, kS |-> FALSE, kT |-> FALSE,
           pfirst |-> "none"]
NewReq == [nS |-> 0, nT |-> 0, dS |-> FALSE, dT |-> FALSE,
           undS |-> FALSE, undT |-> FALSE, call |-> NoCall,
           lq |-> TRUE, lS |-> FALSE, lT |-> FALSE, lfirst |-> "none"]
NewErr == [pending |-> FALSE, handled |-> FALSE, caps |-> 0, dbs |-> 0, tones |-> 0]
\* stp, from the moment stop() sets stop_evt on a live Monitor until the thread
\* ends: the captures, level events and tones since (counted up to 2),
\* whether the loop has been at its top since, and whether a capture began
\* after that
NewStop == [on |-> FALSE, caps |-> 0, dbs |-> 0, tones |-> 0, top |-> FALSE,
            late |-> FALSE]
\* lvl: the level of the last ("DB", db) put; whether poll_ui has found q_ui
\* empty and taken no level since, and the last level put at that moment;
\* the levels put and not yet written to current_db, oldest first, and
\* whether every level written so far was the oldest of them
NewLevels == [put |-> InitDb, drained |-> FALSE, at |-> InitDb,
              pending |-> <<>>, inorder |-> TRUE]
\* rem: set_threshold has written v; nothing at all has written the
\* threshold since (fresh: the "rem" history); no control surface has changed
\* the threshold since (on), the monitor was running when it was written
\* (run), n set_threshold requests so far (the "adopt" history)
NewRemote == [v |-> InitThresh, on |-> FALSE, fresh |-> FALSE, run |-> FALSE,
              n |-> 0]

\* sp, the history of the speech requests:
\*   sent     send_message requests so far
\*   raw      the text of the request being handled, as received
\*   bad      the request being handled has no JSON body, or its "message"
\*            is not a string
\*   enq      the tags put into tts_queue, in order
\*   deq      the tags the worker has taken, in order
\*   started  the tags whose say() was called, in order
\*   ended    the tags whose speech has finished or raised
\*   failed   the tags whose speech raised
\*   late     the say() calls made with stop_event set (up to 2)
NewSpeech == [sent |-> 0, raw |-> NoMsg, bad |-> FALSE, enq |-> <<>>,
              deq |-> <<>>, started |-> <<>>, ended |-> {}, failed |-> {},
              late |-> 0]

\* nop, while poll_ui runs stop() for a stop request it has consumed with
\* is_monitoring false and no Monitor alive: threshold, current_db and the
\* Monitor thread's state as they were when stop() was called, and whether
\* stop() has returned
NewNoop == [on |-> FALSE, done |-> FALSE, th |-> InitThresh, db |-> InitDb,
            mon |-> "none"]
\* drn, the snapshots of q_cmd and the drains at the top of the loop:
\*   q       for each snapshot in q_cmd, whether it is the last one put
\*   held    the snapshot in settings is "none", the "last" one put, or a
\*           "stale" one (a later one has been put)
\*   k       snapshots put since the previous drain ended (up to MaxQSnaps)
\*   got     snapshots taken by the drain in progress or just ended
\*   before  settings when that drain began
\*   used    the cycle in progress runs with the snapshot that was the last
\*           one put when its drain ended
\*   kAt     k when that drain ended
\*   first   the first snapshot that drain took
NewDrain == [q |-> <<>>, held |-> "none", k |-> 0, got |-> 0,
             before |-> NoSettings, used |-> TRUE, kAt |-> 0,
             first |-> NoSettings]
\* ovl: the audio stream a Monitor loop has open ("none", "capture" or
\* "tone"), whether a loop opened one while a loop had one open, the stream
\* closed last, the Monitors created (up to 2), and the Monitor threads
\* started whose run() has not returned (up to 2); the "ERR" events waiting
\* in q_ui that were put before the Monitor of now was created (stale), whose
\* "ERR" event poll_ui is handling ("none", "stale": an earlier Monitor's,
\* "fresh": this Monitor's), and whether the stop() made for a stale event
\* has set the stop signal of a live Monitor that had none (hit)
\* of the poll_ui call in progress: whether check_web_requests returned both
\* a start and a stop request (both), and which of start() and stop() it
\* has called for them, in order (did)
NewOverlap == [busy |-> "none", clash |-> FALSE, last |-> "none", loops |-> 0,
               alive |-> 0, stale |-> 0, handling |-> "none", hit |-> FALSE,
               both |-> FALSE, did |-> <<>>]

\* calibrate has captured nothing
NoCapture == [is |-> "none", ambient |-> 0]

\* no pure function applied
NoFn == [f |-> "none"]

\* the program after construction, but for the speech queue
Built ==
    /\ threshold = InitThresh
    /\ is_monitoring = FALSE
    /\ current_db = InitDb
    /\ web_start_requested = FALSE
    /\ web_stop_requested = FALSE
    /\ lock = "free"
    /\ ui_pc = "idle"
    /\ ui_stack = <<>>
    /\ ui_upd = NoUpd
    /\ start_req = FALSE
    /\ stop_req = FALSE
    /\ th_var = InitThresh
    /\ shape_var = "Sine"
    /\ push_job = FALSE
    /\ status_label = "STOPPED"
    /\ start_btn = TRUE
    /\ stop_btn = FALSE
    /\ q_cmd = <<>>
    /\ q_ui = <<>>
    /\ mon_pc = "none"
    /\ stop_evt = FALSE
    /\ settings = NoSettings
    /\ mon_db = NoDb
    /\ http_pc = "idle"
    /\ http_arg = 0
    /\ http_snap = NoSnap
    /\ cyc = NewCycle
    /\ req = NewReq
    /\ err = NewErr
    /\ last_put = NoSettings
    /\ stp = NewStop
    /\ lvl = NewLevels
    /\ rem = NewRemote
    /\ tts_pc = "get"
    /\ stop_event = FALSE
    /\ tts_msg = NoMsg
    /\ http_msg = NoMsg
    /\ http_res = NoRes
    /\ calib_window = FALSE
    /\ messagebox = "none"
    /\ rec_flat = NoCapture
    /\ nop = NewNoop
    /\ drn = NewDrain
    /\ ovl = NewOverlap

\* the program after construction: nothing to speak yet
Start ==
    /\ Built
    /\ tts_queue = <<>>
    /\ sp = NewSpeech

\* the program after construction, recording no history; pyttsx3.init() has
\* worked or has raised
Init ==
    /\ Start
    /\ fn = NoFn
    /\ focus = {}
    /\ tts_engine \in BOOLEAN

\* ---- Monitor.run (src/noise_alert.py:247-289) -----------------------------

\* stp after the monitor did what: "cap" a capture begun, "db" a level event
\* put, "tone" play_tone called, "top" back at the top of the loop
StopSeen(what) ==
    IF ~stp.on THEN stp
    ELSE CASE what = "cap" -> [stp EXCEPT !.caps = Inc(stp.caps, 2),
                                          !.late = stp.late \/ stp.top]
           [] what = "db" -> [stp EXCEPT !.dbs = Inc(stp.dbs, 2)]
           [] what = "tone" -> [stp EXCEPT !.tones = Inc(stp.tones, 2)]
           [] what = "top" -> [stp EXCEPT !.top = TRUE]
           [] OTHER -> stp

\* "while True:" for "while not self.stop_evt.is_set():"
MonTopIgnoreStop ==
    /\ mon_pc = "top"
    /\ mon_pc' = "drain"
    /\ cyc' = Hist("cyc", NewCycle, cyc)
    /\ UNCHANGED <<sharedVars, uiVars, queueVars, stop_evt, settings, mon_db,
                   httpVars, req, err, last_put, focus, stp, lvl, rem,
                   ttsVars, hist3, fn>>

\* Thread.start() of a Monitor, and run() returning
ThreadStarted == [ovl EXCEPT !.alive = Inc(ovl.alive, 2)]
ThreadEnded == [ovl EXCEPT !.alive = ovl.alive - 1]

\* while not self.stop_evt.is_set(): the test at the top of every cycle
MonTop ==
    /\ mon_pc = "top"
    /\ IF stop_evt
          THEN mon_pc' = "dead" /\ settings' = NoSettings /\ cyc' = NewCycle
          ELSE mon_pc' = "drain" /\ settings' = settings
               /\ cyc' = Hist("cyc", NewCycle, cyc)
    /\ stp' = Hist("stp", IF stop_evt THEN NewStop ELSE stp, stp)
    /\ drn' = Hist("drn", IF stop_evt
                              THEN [drn EXCEPT !.held = "none"]
                              ELSE [drn EXCEPT !.got = 0, !.before = settings,
                                               !.first = NoSettings], drn)
    /\ ovl' = Hist("ovl", IF stop_evt THEN ThreadEnded ELSE ovl, ovl)
    /\ UNCHANGED <<sharedVars, uiVars, queueVars, stop_evt, mon_db, httpVars,
                   req, err, last_put, focus, lvl, rem, ttsVars, nop, fn>>

\* while 1: settings = self.q_cmd.get_nowait()   (one item taken)
\* pa.open(...): a Monitor loop opens its input ("capture") or output
\* ("tone") stream
StreamOpen(kind) ==
    [ovl EXCEPT !.busy = kind, !.clash = ovl.clash \/ ovl.busy # "none"]
\* stream.close() / pa.terminate(): the stream is closed, or was never open
\* because pa.open raised
StreamClose(kind) == [ovl EXCEPT !.busy = "none", !.last = kind]

\* the drain record after the head of q_cmd was taken
DrainTook ==
    [drn EXCEPT !.q = Tail(drn.q),
                !.held = IF Head(drn.q) THEN "last" ELSE "stale",
                !.got = Inc(drn.got, MaxQSnaps),
                !.first = IF drn.got = 0 THEN Head(q_cmd) ELSE drn.first]

\* the drain record when the drain has ended with the snapshot tagged held
DrainEnded(d, held) ==
    [d EXCEPT !.used = (held = "last"), !.kAt = d.k, !.k = 0]

\* if instead of while: one snapshot is taken and the cycle goes on
MonDrainOne ==
    /\ mon_pc = "drain"
    /\ q_cmd # <<>>
    /\ settings' = Head(q_cmd)
    /\ q_cmd' = Tail(q_cmd)
    /\ mon_pc' = "capture"
    /\ drn' = Hist("drn", DrainEnded(DrainTook, DrainTook.held), drn)
    /\ UNCHANGED <<sharedVars, uiVars, q_ui, stop_evt, mon_db,
                   httpVars, cyc, req, err, last_put, focus, stp, lvl, rem,
                   nop, ovl, ttsVars, fn>>

MonDrainGet ==
    /\ mon_pc = "drain"
    /\ q_cmd # <<>>
    /\ settings' = Head(q_cmd)
    /\ q_cmd' = Tail(q_cmd)
    /\ drn' = Hist("drn", DrainTook, drn)
    /\ UNCHANGED <<sharedVars, uiVars, q_ui, mon_pc, stop_evt, mon_db,
                   httpVars, cyc, req, err, last_put, focus, stp, lvl, rem,
                   nop, ovl, ttsVars, fn>>

\* except queue.Empty: pass; if not settings: time.sleep(0.1); continue
MonDrainEmpty ==
    /\ mon_pc = "drain"
    /\ q_cmd = <<>>
    /\ mon_pc' = IF settings = NoSettings THEN "top" ELSE "capture"
    /\ cyc' = Hist("cyc", [cyc EXCEPT !.held = settings, !.last = last_put], cyc)
    /\ stp' = Hist("stp", StopSeen(IF settings = NoSettings THEN "top" ELSE "none"), stp)
    /\ drn' = Hist("drn", DrainEnded(drn, drn.held), drn)
    /\ ovl' = Hist("ovl", IF settings = NoSettings THEN ovl
                                                    ELSE StreamOpen("capture"), ovl)
    /\ UNCHANGED <<sharedVars, uiVars, queueVars, stop_evt, settings, mon_db,
                   httpVars, req, err, last_put, focus, lvl, rem, ttsVars,
                   nop, fn>>

\* pa.open ... stream.read(frames) ... unpack, clip, rms, rms_to_db: the
\* capture succeeded and yields the level d
MonCapture ==
    /\ mon_pc = "capture"
    /\ \E d \in DbVals : mon_db' = d
    /\ mon_pc' = "put_db"
    /\ err' = Hist("err", IF err.pending THEN [err EXCEPT !.caps = Inc(err.caps, 1)]
                                       ELSE err, err)
    /\ stp' = Hist("stp", StopSeen("cap"), stp)
    /\ ovl' = Hist("ovl", StreamClose("capture"), ovl)
    /\ UNCHANGED <<sharedVars, uiVars, queueVars, stop_evt, settings,
                   httpVars, cyc, req, last_put, focus, lvl, rem, ttsVars,
                   nop, drn, fn>>

\* except Exception as e: self.q_ui.put(("ERR", str(e)))
MonCaptureFail ==
    /\ mon_pc = "capture"
    /\ Len(q_ui) < QUiCap
    /\ q_ui' = Append(q_ui, <<"ERR", 0>>)
    /\ mon_pc' = "err_set"
    /\ mon_db' = NoDb
    /\ cyc' = Hist("cyc", [cyc EXCEPT !.errs = Inc(cyc.errs, 2)], cyc)
    /\ err' = Hist("err", [err EXCEPT !.pending = TRUE, !.caps = 0, !.dbs = 0,
                                     !.tones = 0], err)
    /\ stp' = Hist("stp", StopSeen("cap"), stp)
    /\ ovl' = Hist("ovl", StreamClose("capture"), ovl)
    /\ UNCHANGED <<sharedVars, uiVars, q_cmd, stop_evt, settings, httpVars,
                   req, last_put, focus, lvl, rem, ttsVars, nop, drn, fn>>

\* the loop going round after the error ("continue" for "set(); break")
MonErrRetry ==
    /\ mon_pc = "err_set"
    /\ mon_pc' = "top"
    /\ UNCHANGED <<sharedVars, uiVars, queueVars, stop_evt, settings, mon_db,
                   httpVars, histVars, ttsVars, fn>>

\* self.stop_evt.set(); break
MonErrExit ==
    /\ mon_pc = "err_set"
    /\ stop_evt' = TRUE
    /\ mon_pc' = "dead"
    /\ settings' = NoSettings
    /\ stp' = Hist("stp", NewStop, stp)
    /\ drn' = Hist("drn", [drn EXCEPT !.held = "none"], drn)
    /\ ovl' = Hist("ovl", ThreadEnded, ovl)
    /\ UNCHANGED <<sharedVars, uiVars, queueVars, mon_db, httpVars, cyc, req,
                   err, last_put, focus, lvl, rem, ttsVars, nop, fn>>

\* self.q_ui.put(("DB", db))
MonPutDb ==
    /\ mon_pc = "put_db"
    /\ Len(q_ui) < QUiCap
    /\ q_ui' = Append(q_ui, <<"DB", mon_db>>)
    /\ mon_pc' = "compare"
    /\ cyc' = Hist("cyc", [cyc EXCEPT !.db = Inc(cyc.db, 2)], cyc)
    /\ err' = Hist("err", IF err.pending THEN [err EXCEPT !.dbs = Inc(err.dbs, 1)]
                                       ELSE err, err)
    /\ stp' = Hist("stp", StopSeen("db"), stp)
    /\ lvl' = Hist("lvl", [lvl EXCEPT !.put = mon_db,
                                      !.pending = Append(lvl.pending, mon_db)], lvl)
    /\ UNCHANGED <<sharedVars, uiVars, q_cmd, stop_evt, settings, mon_db,
                   httpVars, req, last_put, focus, rem, ttsVars, hist3, fn>>

\* the loop comparing against the threshold in shared state
CompareLiveThreshold == threshold

\* the threshold of "if db > settings["thresh"]"
CompareThreshold == settings.thresh

\* "if db >= settings["thresh"]"
ExceedsOrEquals(db, th) == db >= th

\* the test of "if db > settings["thresh"]"
Exceeds(db, th) == db > th

\* if db > settings["thresh"]:
MonCompare ==
    /\ mon_pc = "compare"
    /\ mon_pc' = IF Exceeds(mon_db, CompareThreshold) THEN "tone" ELSE "delay"
    /\ cyc' = Hist("cyc", [cyc EXCEPT !.usedThresh = CompareThreshold], cyc)
    /\ ovl' = Hist("ovl", IF Exceeds(mon_db, CompareThreshold)
                              THEN StreamOpen("tone") ELSE ovl, ovl)
    /\ UNCHANGED <<sharedVars, uiVars, queueVars, stop_evt, settings, mon_db,
                   httpVars, req, err, last_put, focus, stp, lvl, rem,
                   ttsVars, nop, drn, fn>>

\* the shape argument of play_tone(settings["shape"], ...)
ToneShape == settings.shape

\* play_tone without its "except Exception": a playback error reaches run()
\* and ends the thread
MonToneFatal ==
    /\ mon_pc = "tone"
    /\ \E ok \in BOOLEAN :
          /\ cyc' = Hist("cyc", [cyc EXCEPT !.tones = Inc(cyc.tones, 2),
                                            !.usedShape = ToneShape,
                                            !.toneFail = ~ok], cyc)
          /\ mon_pc' = IF ok THEN "delay" ELSE "dead"
    /\ err' = Hist("err", IF err.pending THEN [err EXCEPT !.tones = Inc(err.tones, 1)]
                                       ELSE err, err)
    /\ stp' = Hist("stp", StopSeen("tone"), stp)
    /\ ovl' = Hist("ovl", [StreamClose("tone") EXCEPT
                              !.alive = IF mon_pc' = "dead" THEN @ - 1 ELSE @], ovl)
    /\ UNCHANGED <<sharedVars, uiVars, queueVars, stop_evt, settings, mon_db,
                   httpVars, req, last_put, focus, lvl, rem, ttsVars, nop, drn,
                   fn>>

\* play_tone(...): gen_wave and the output stream either work or raise, and
\* play_tone's own "except Exception" swallows the error; time.sleep(delay)
\* is next either way
MonTone ==
    /\ mon_pc = "tone"
    /\ \E ok \in BOOLEAN :
          cyc' = Hist("cyc", [cyc EXCEPT !.tones = Inc(cyc.tones, 2),
                                         !.usedShape = ToneShape,
                                         !.toneFail = ~ok], cyc)
    /\ mon_pc' = "delay"
    /\ err' = Hist("err", IF err.pending THEN [err EXCEPT !.tones = Inc(err.tones, 1)]
                                       ELSE err, err)
    /\ stp' = Hist("stp", StopSeen("tone"), stp)
    /\ ovl' = Hist("ovl", StreamClose("tone"), ovl)
    /\ UNCHANGED <<sharedVars, uiVars, queueVars, stop_evt, settings, mon_db,
                   httpVars, req, last_put, focus, lvl, rem, ttsVars, nop, drn,
                   fn>>

\* time.sleep(settings["delay"])
MonDelay ==
    /\ mon_pc = "delay"
    /\ mon_pc' = "top"
    /\ mon_db' = NoDb
    /\ stp' = Hist("stp", StopSeen("top"), stp)
    /\ UNCHANGED <<sharedVars, uiVars, queueVars, stop_evt, settings,
                   httpVars, cyc, req, err, last_put, focus, lvl, rem,
                   ttsVars, hist3, fn>>

MonitorStep ==
    \/ MonTop \/ MonDrainGet \/ MonDrainEmpty \/ MonCapture \/ MonCaptureFail
    \/ MonErrExit \/ MonPutDb \/ MonCompare \/ MonTone \/ MonDelay

\* ---- SharedState.update_* called on the main thread (140-150) -------------

\* web_server.stop() has run: should_stop is set and server_close() was
\* called, so handle_request takes no further request (one being handled
\* goes on: join(timeout=2) does not wait for it beyond two seconds)
ServerClosed == ui_pc \in {"oc_tts", "closed"}

\* the main thread calls the procedure at label target; it returns to ret
UiCall(target, ret) ==
    /\ ui_pc' = target
    /\ ui_stack' = <<ret>> \o ui_stack

UiReturn ==
    /\ ui_pc' = Head(ui_stack)
    /\ ui_stack' = Tail(ui_stack)

\* with self.lock:   (update_threshold, update_monitoring, update_current_db)
UiUpdAcquire ==
    /\ ui_pc = "upd_acq"
    /\ lock = "free"
    /\ lock' = "ui"
    /\ ui_pc' = "upd_wr"
    /\ UNCHANGED <<threshold, is_monitoring, current_db, web_start_requested,
                   web_stop_requested, ui_stack, ui_upd, start_req, stop_req,
                   th_var, shape_var, push_job, status_label, start_btn,
                   stop_btn, queueVars, monVars, httpVars, histVars, ttsVars,
                   calVars, fn>>

\* update_* with self.lock.acquire() and no release
UiUpdWriteNoRelease ==
    /\ ui_pc = "upd_wr"
    /\ threshold' = IF ui_upd.f = "threshold" THEN ui_upd.v ELSE threshold
    /\ is_monitoring' = IF ui_upd.f = "is_monitoring" THEN ui_upd.v ELSE is_monitoring
    /\ current_db' = IF ui_upd.f = "current_db" THEN ui_upd.v ELSE current_db
    /\ lock' = lock
    /\ ui_upd' = NoUpd
    /\ UiReturn
    /\ lvl' = Hist("lvl", IF ui_upd.f = "current_db"
                              THEN [lvl EXCEPT
                                      !.pending = IF lvl.pending = <<>> THEN <<>>
                                                  ELSE Tail(lvl.pending),
                                      !.inorder = /\ lvl.inorder
                                                  /\ lvl.pending # <<>>
                                                  /\ ui_upd.v = Head(lvl.pending)]
                              ELSE lvl, lvl)
    /\ rem' = Hist("rem", IF ui_upd.f = "threshold"
                              THEN [rem EXCEPT !.fresh = FALSE] ELSE rem, rem)
    /\ nop' = Hist("nop", IF nop.on /\ ui_upd.f = "is_monitoring"
                              THEN [nop EXCEPT !.done = TRUE] ELSE nop, nop)
    /\ UNCHANGED <<web_start_requested, web_stop_requested, start_req,
                   stop_req, th_var, shape_var, push_job, status_label,
                   start_btn, stop_btn, queueVars, monVars, httpVars, cyc,
                   req, err, last_put, focus, stp, drn, ovl, ttsVars, calVars,
                   fn>>

\* self.threshold = value / self.is_monitoring = status /
\* self.current_db = value, and the lock released on leaving the with block
UiUpdWrite ==
    /\ ui_pc = "upd_wr"
    /\ threshold' = IF ui_upd.f = "threshold" THEN ui_upd.v ELSE threshold
    /\ is_monitoring' = IF ui_upd.f = "is_monitoring" THEN ui_upd.v ELSE is_monitoring
    /\ current_db' = IF ui_upd.f = "current_db" THEN ui_upd.v ELSE current_db
    /\ lock' = "free"
    /\ ui_upd' = NoUpd
    /\ UiReturn
    /\ lvl' = Hist("lvl", IF ui_upd.f = "current_db"
                              THEN [lvl EXCEPT
                                      !.pending = IF lvl.pending = <<>> THEN <<>>
                                                  ELSE Tail(lvl.pending),
                                      !.inorder = /\ lvl.inorder
                                                  /\ lvl.pending # <<>>
                                                  /\ ui_upd.v = Head(lvl.pending)]
                              ELSE lvl, lvl)
    /\ rem' = Hist("rem", IF ui_upd.f = "threshold"
                              THEN [rem EXCEPT !.fresh = FALSE] ELSE rem, rem)
    /\ nop' = Hist("nop", IF nop.on /\ ui_upd.f = "is_monitoring"
                              THEN [nop EXCEPT !.done = TRUE] ELSE nop, nop)
    /\ UNCHANGED <<web_start_requested, web_stop_requested, start_req,
                   stop_req, th_var, shape_var, push_job, status_label,
                   start_btn, stop_btn, queueVars, monVars, httpVars, cyc,
                   req, err, last_put, focus, stp, drn, ovl, ttsVars, calVars,
                   fn>>

\* ---- schedule_push_settings (1792-1797) -----------------------------------
\* a pending job is cancelled; a new one is set only while the monitor lives
SchedulePush == push_job' = MonitorAlive

\* ---- push_settings (1807-1834) --------------------------------------------

\* shared_state.update_threshold(th_var.get())
UiPushBegin ==
    /\ ui_pc = "ps_begin"
    /\ ui_upd' = [f |-> "threshold", v |-> th_var]
    /\ UiCall("upd_acq", "ps_put")
    /\ UNCHANGED <<sharedVars, start_req, stop_req, th_var, shape_var,
                   push_job, status_label, start_btn, stop_btn, queueVars,
                   monVars, httpVars, histVars, ttsVars, calVars, fn>>

\* q_cmd.put({"thresh": th_var.get(), "shape": shape_var.get(), ...}): the
\* dict also carries freq, dur, vol, fs, chunk, delay and the devices, which
\* travel with thresh and shape in the one object
UiPushPut ==
    /\ ui_pc = "ps_put"
    /\ Len(q_cmd) < QCmdCap
    /\ q_cmd' = Append(q_cmd, [thresh |-> th_var, shape |-> shape_var])
    /\ last_put' = Hist("cyc", [thresh |-> th_var, shape |-> shape_var], last_put)
    /\ drn' = Hist("drn",
                   [drn EXCEPT !.q = Append([i \in DOMAIN drn.q |-> FALSE], TRUE),
                               !.held = IF drn.held = "last" THEN "stale"
                                                             ELSE drn.held,
                               !.k = Inc(drn.k, MaxQSnaps)], drn)
    /\ UiReturn
    /\ UNCHANGED <<sharedVars, ui_upd, start_req, stop_req, th_var, shape_var,
                   push_job, status_label, start_btn, stop_btn, q_ui, monVars,
                   httpVars, cyc, req, err, focus, stp, lvl, rem, ttsVars,
                   calVars, nop, ovl, fn>>

\* ---- start (1836-1846) ----------------------------------------------------

\* monitor = Monitor(q_cmd, q_ui): the "ERR" events in q_ui are an earlier
\* Monitor's
MonitorCreated ==
    [ovl EXCEPT !.loops = Inc(ovl.loops, 2),
                !.stale = Cardinality({i \in DOMAIN q_ui : q_ui[i][1] = "ERR"})]

\* start() without its is_alive() test: a Monitor is created every time
UiStartCheckAlways ==
    /\ ui_pc = "st_chk"
    /\ mon_pc' = "created"
    /\ stop_evt' = FALSE
    /\ settings' = NoSettings
    /\ UiCall("ps_begin", "st_run")
    /\ err' = Hist("err", NewErr, err)
    /\ ovl' = Hist("ovl", MonitorCreated, ovl)
    /\ UNCHANGED <<sharedVars, ui_upd, start_req, stop_req, th_var, shape_var,
                   push_job, status_label, start_btn, stop_btn, queueVars,
                   mon_db, httpVars, cyc, req, last_put, focus, stp, lvl, rem,
                   ttsVars, calVars, nop, drn, fn>>

\* a start() that pushes the settings again when the Monitor is alive
UiStartCheckRepush ==
    /\ ui_pc = "st_chk"
    /\ IF MonitorAlive
          THEN /\ ui_pc' = "ps_begin"
               /\ ui_stack' = ui_stack
               /\ UNCHANGED <<mon_pc, stop_evt, settings>>
          ELSE /\ mon_pc' = "created"
               /\ stop_evt' = FALSE
               /\ settings' = NoSettings
               /\ UiCall("ps_begin", "st_run")
    /\ err' = IF MonitorAlive THEN err ELSE Hist("err", NewErr, err)
    /\ ovl' = IF MonitorAlive THEN ovl
                              ELSE Hist("ovl", MonitorCreated, ovl)
    /\ UNCHANGED <<sharedVars, ui_upd, start_req, stop_req, th_var, shape_var,
                   push_job, status_label, start_btn, stop_btn, queueVars,
                   mon_db, httpVars, cyc, req, last_put, focus, stp, lvl, rem,
                   ttsVars, calVars, nop, drn, fn>>

\* if monitor and monitor.is_alive(): return
\* monitor = Monitor(q_cmd, q_ui); push_settings()
UiStartCheck ==
    /\ ui_pc = "st_chk"
    /\ IF MonitorAlive
          THEN /\ UiReturn
               /\ UNCHANGED <<mon_pc, stop_evt, settings>>
          ELSE /\ mon_pc' = "created"
               /\ stop_evt' = FALSE
               /\ settings' = NoSettings
               /\ UiCall("ps_begin", "st_run")
    /\ err' = IF MonitorAlive THEN err ELSE Hist("err", NewErr, err)
    /\ ovl' = IF MonitorAlive THEN ovl
                              ELSE Hist("ovl", MonitorCreated, ovl)
    /\ UNCHANGED <<sharedVars, ui_upd, start_req, stop_req, th_var, shape_var,
                   push_job, status_label, start_btn, stop_btn, queueVars,
                   mon_db, httpVars, cyc, req, last_put, focus, stp, lvl, rem,
                   ttsVars, calVars, nop, drn, fn>>

\* monitor.start(); the buttons; status_label "MONITORING";
\* shared_state.update_monitoring(True)
UiStartRun ==
    /\ ui_pc = "st_run"
    /\ mon_pc' = "top"
    /\ start_btn' = FALSE
    /\ stop_btn' = TRUE
    /\ status_label' = "MONITORING"
    /\ ui_upd' = [f |-> "is_monitoring", v |-> TRUE]
    /\ ui_pc' = "upd_acq"
    /\ ovl' = Hist("ovl", ThreadStarted, ovl)
    /\ UNCHANGED <<sharedVars, ui_stack, start_req, stop_req, th_var,
                   shape_var, push_job, queueVars, stop_evt, settings, mon_db,
                   httpVars, cyc, req, err, last_put, focus, stp, lvl, rem,
                   nop, drn, ttsVars, calVars, fn>>

\* ---- stop (1848-1855) -----------------------------------------------------

\* if monitor: monitor.stop_evt.set()
UiStopSet ==
    /\ ui_pc = "sp_set"
    /\ IF mon_pc # "none"
          THEN stop_evt' = TRUE /\ ui_pc' = "sp_join"
          ELSE stop_evt' = stop_evt /\ ui_pc' = "sp_lbl"
    /\ stp' = Hist("stp", IF MonitorAlive /\ ~stop_evt
                              THEN [NewStop EXCEPT !.on = TRUE,
                                                   !.top = (mon_pc = "top")]
                              ELSE stp, stp)
    /\ ovl' = Hist("ovl", [ovl EXCEPT !.hit = @ \/ (ovl.handling = "stale"
                                                     /\ MonitorAlive /\ ~stop_evt)],
                   ovl)
    /\ UNCHANGED <<sharedVars, ui_stack, ui_upd, start_req, stop_req, th_var,
                   shape_var, push_job, status_label, start_btn, stop_btn,
                   queueVars, mon_pc, settings, mon_db, httpVars, cyc, req,
                   err, last_put, focus, lvl, rem, ttsVars, calVars, nop, drn,
                   fn>>

\* monitor.join() without the timeout: returns when the thread has ended
UiStopJoinForever ==
    /\ ui_pc = "sp_join"
    /\ ~MonitorAlive
    /\ ui_pc' = "sp_lbl"
    /\ UNCHANGED <<sharedVars, ui_stack, ui_upd, start_req, stop_req, th_var,
                   shape_var, push_job, status_label, start_btn, stop_btn,
                   queueVars, monVars, httpVars, histVars, ttsVars, calVars,
                   fn>>

\* monitor.join(timeout=1): returns when the thread has ended or after one
\* second, whichever is first, so the main thread goes on either way
UiStopJoin ==
    /\ ui_pc = "sp_join"
    /\ ui_pc' = "sp_lbl"
    /\ UNCHANGED <<sharedVars, ui_stack, ui_upd, start_req, stop_req, th_var,
                   shape_var, push_job, status_label, start_btn, stop_btn,
                   queueVars, monVars, httpVars, histVars, ttsVars, calVars,
                   fn>>

\* the status_label text stop() sets
StopStatus == "STOPPED"

\* a stop() that toggles is_monitoring instead of clearing it
UiStopLabelsToggle ==
    /\ ui_pc = "sp_lbl"
    /\ start_btn' = TRUE
    /\ stop_btn' = FALSE
    /\ status_label' = StopStatus
    /\ ui_upd' = [f |-> "is_monitoring", v |-> ~is_monitoring]
    /\ ui_pc' = "upd_acq"
    /\ UNCHANGED <<sharedVars, ui_stack, start_req, stop_req, th_var, shape_var,
                   push_job, queueVars, monVars, httpVars, histVars, ttsVars,
                   calVars, fn>>

\* the buttons; status_label "STOPPED"; shared_state.update_monitoring(False)
UiStopLabels ==
    /\ ui_pc = "sp_lbl"
    /\ start_btn' = TRUE
    /\ stop_btn' = FALSE
    /\ status_label' = StopStatus
    /\ ui_upd' = [f |-> "is_monitoring", v |-> FALSE]
    /\ ui_pc' = "upd_acq"
    /\ UNCHANGED <<sharedVars, ui_stack, start_req, stop_req, th_var,
                   shape_var, push_job, queueVars, monVars, httpVars,
                   histVars, ttsVars, calVars, fn>>

\* ---- SharedState.check_web_requests on the main thread (165-171) ----------

\* with self.lock:
UiCwAcquire ==
    /\ ui_pc = "cw_acq"
    /\ lock = "free"
    /\ lock' = "ui"
    /\ ui_pc' = "cw_rd_s"
    /\ UNCHANGED <<threshold, is_monitoring, current_db, web_start_requested,
                   web_stop_requested, ui_stack, ui_upd, start_req, stop_req,
                   th_var, shape_var, push_job, status_label, start_btn,
                   stop_btn, queueVars, monVars, httpVars, histVars, ttsVars,
                   calVars, fn>>

\* start_req = self.web_start_requested
UiCwReadStart ==
    /\ ui_pc = "cw_rd_s"
    /\ start_req' = web_start_requested
    /\ ui_pc' = "cw_rd_t"
    /\ req' = Hist("und", [req EXCEPT !.undS = IF web_start_requested THEN FALSE
                                                  ELSE @], req)
    /\ UNCHANGED <<sharedVars, ui_stack, ui_upd, stop_req, th_var, shape_var,
                   push_job, status_label, start_btn, stop_btn, queueVars,
                   monVars, httpVars, cyc, err, last_put, focus, stp, lvl,
                   rem, ttsVars, calVars, hist3, fn>>

\* stop_req = self.web_stop_requested
UiCwReadStop ==
    /\ ui_pc = "cw_rd_t"
    /\ stop_req' = web_stop_requested
    /\ ui_pc' = "cw_clr_s"
    /\ req' = Hist("und", [req EXCEPT !.undT = IF web_stop_requested THEN FALSE
                                                  ELSE @], req)
    /\ UNCHANGED <<sharedVars, ui_stack, ui_upd, start_req, th_var, shape_var,
                   push_job, status_label, start_btn, stop_btn, queueVars,
                   monVars, httpVars, cyc, err, last_put, focus, stp, lvl,
                   rem, ttsVars, calVars, hist3, fn>>

\* check_web_requests without "self.web_start_requested = False"
UiCwKeepStart ==
    /\ ui_pc = "cw_clr_s"
    /\ ui_pc' = "cw_clr_t"
    /\ UNCHANGED <<sharedVars, ui_stack, ui_upd, start_req, stop_req, th_var,
                   shape_var, push_job, status_label, start_btn, stop_btn,
                   queueVars, monVars, httpVars, histVars, ttsVars, calVars,
                   fn>>

\* self.web_start_requested = False
UiCwClearStart ==
    /\ ui_pc = "cw_clr_s"
    /\ web_start_requested' = FALSE
    /\ ui_pc' = "cw_clr_t"
    /\ UNCHANGED <<threshold, is_monitoring, current_db, web_stop_requested,
                   lock, ui_stack, ui_upd, start_req, stop_req, th_var,
                   shape_var, push_job, status_label, start_btn, stop_btn,
                   queueVars, monVars, httpVars, histVars, ttsVars, calVars,
                   fn>>

\* the history once the call executing now returns <<start_req, stop_req>>
ReqAfterCall ==
    LET quiet == ~req.dS /\ ~req.dT
        single(a, b) == req.lq /\ quiet /\ a = 1 /\ b = 0
    IN  [req EXCEPT !.nS = 0, !.nT = 0, !.dS = FALSE, !.dT = FALSE,
                    !.call = [ret |-> TRUE, res |-> <<start_req, stop_req>>,
                              cS |-> req.nS, cT |-> req.nT,
                              qS |-> ~req.dS, qT |-> ~req.dT,
                              base |-> req.lq, kS |-> req.lS, kT |-> req.lT,
                              pfirst |-> req.lfirst],
                    !.lq = quiet,
                    !.lS = req.nS >= 1 /\ ~req.dS,
                    !.lT = req.nT >= 1 /\ ~req.dT,
                    !.lfirst = IF single(req.nS, req.nT) THEN "start"
                               ELSE IF single(req.nT, req.nS) THEN "stop"
                               ELSE "none"]

\* check_web_requests without "self.web_stop_requested = False"
UiCwKeepStop ==
    /\ ui_pc = "cw_clr_t"
    /\ lock' = "free"
    /\ ui_pc' = "poll_start"
    /\ req' = Hist("req", ReqAfterCall, req)
    /\ UNCHANGED <<threshold, is_monitoring, current_db, web_start_requested,
                   web_stop_requested, ui_stack, ui_upd, start_req, stop_req,
                   th_var, shape_var, push_job, status_label, start_btn,
                   stop_btn, queueVars, monVars, httpVars, cyc, err, last_put,
                   focus, stp, lvl, rem, ttsVars, calVars, hist3, fn>>

\* self.web_stop_requested = False; return start_req, stop_req (lock released)
UiCwClearStop ==
    /\ ui_pc = "cw_clr_t"
    /\ web_stop_requested' = FALSE
    /\ lock' = "free"
    /\ ui_pc' = "poll_start"
    /\ req' = Hist("req", ReqAfterCall, req)
    /\ UNCHANGED <<threshold, is_monitoring, current_db, web_start_requested,
                   ui_stack, ui_upd, start_req, stop_req, th_var, shape_var,
                   push_job, status_label, start_btn, stop_btn, queueVars,
                   monVars, httpVars, cyc, err, last_put, focus, stp, lvl,
                   rem, ttsVars, calVars, hist3, fn>>

\* ---- poll_ui (2040-2066) --------------------------------------------------

\* root.after(100, poll_ui) fires
UiPollBegin ==
    /\ ui_pc = "idle"
    /\ ui_pc' = "poll_get"
    /\ UNCHANGED <<sharedVars, ui_stack, ui_upd, start_req, stop_req, th_var,
                   shape_var, push_job, status_label, start_btn, stop_btn,
                   queueVars, monVars, httpVars, histVars, ttsVars, calVars,
                   fn>>

\* the status_label text poll_ui sets for an "ERR" event
ErrorStatus == "ERROR"

\* poll_ui taking the newest event of q_ui first
UiPollGetNewest ==
    /\ ui_pc = "poll_get"
    /\ IF q_ui = <<>>
          THEN /\ ui_pc' = "cw_acq"
               /\ UNCHANGED <<q_ui, ui_stack, ui_upd, status_label>>
          ELSE /\ q_ui' = SubSeq(q_ui, 1, Len(q_ui) - 1)
               /\ IF q_ui[Len(q_ui)][1] = "DB"
                     THEN /\ ui_upd' = [f |-> "current_db", v |-> q_ui[Len(q_ui)][2]]
                          /\ UiCall("upd_acq", "poll_get")
                          /\ UNCHANGED status_label
                     ELSE /\ status_label' = ErrorStatus
                          /\ UiCall("sp_set", "poll_err")
                          /\ UNCHANGED ui_upd
    /\ lvl' = Hist("lvl", IF q_ui = <<>>
                              THEN [lvl EXCEPT !.drained = TRUE, !.at = lvl.put]
                              ELSE IF q_ui[Len(q_ui)][1] = "DB"
                                      THEN [lvl EXCEPT !.drained = FALSE]
                                      ELSE lvl, lvl)
    /\ UNCHANGED <<sharedVars, start_req, stop_req, th_var, shape_var,
                   push_job, start_btn, stop_btn, q_cmd, monVars, httpVars,
                   cyc, req, err, last_put, focus, stp, rem, ttsVars, calVars,
                   hist3, fn>>

\* an "ERR" branch that sets the label and does not call stop()
UiPollGetNoStop ==
    /\ ui_pc = "poll_get"
    /\ IF q_ui = <<>>
          THEN /\ ui_pc' = "cw_acq"
               /\ UNCHANGED <<q_ui, ui_stack, ui_upd, status_label>>
          ELSE /\ q_ui' = Tail(q_ui)
               /\ IF Head(q_ui)[1] = "DB"
                     THEN /\ ui_upd' = [f |-> "current_db", v |-> Head(q_ui)[2]]
                          /\ UiCall("upd_acq", "poll_get")
                          /\ UNCHANGED status_label
                     ELSE /\ status_label' = ErrorStatus
                          /\ ui_pc' = "poll_err" /\ UNCHANGED ui_stack
                          /\ UNCHANGED ui_upd
    /\ lvl' = Hist("lvl", IF q_ui = <<>>
                              THEN [lvl EXCEPT !.drained = TRUE, !.at = lvl.put]
                              ELSE IF Head(q_ui)[1] = "DB"
                                      THEN [lvl EXCEPT !.drained = FALSE]
                                      ELSE lvl, lvl)
    /\ ovl' = Hist("ovl", IF q_ui # <<>> /\ Head(q_ui)[1] = "ERR"
                              THEN [ovl EXCEPT
                                      !.handling = IF ovl.stale > 0 THEN "stale"
                                                                    ELSE "fresh",
                                      !.stale = IF ovl.stale > 0 THEN @ - 1 ELSE 0]
                              ELSE ovl, ovl)
    /\ UNCHANGED <<sharedVars, start_req, stop_req, th_var, shape_var,
                   push_job, start_btn, stop_btn, q_cmd, monVars, httpVars,
                   cyc, req, err, last_put, focus, stp, rem, ttsVars, calVars,
                   nop, drn, fn>>

\* tag, val = q_ui.get_nowait(): nothing left, a level or an error
UiPollGet ==
    /\ ui_pc = "poll_get"
    /\ IF q_ui = <<>>
          THEN /\ ui_pc' = "cw_acq"
               /\ UNCHANGED <<q_ui, ui_stack, ui_upd, status_label>>
          ELSE /\ q_ui' = Tail(q_ui)
               /\ IF Head(q_ui)[1] = "DB"
                     THEN /\ ui_upd' = [f |-> "current_db", v |-> Head(q_ui)[2]]
                          /\ UiCall("upd_acq", "poll_get")
                          /\ UNCHANGED status_label
                     ELSE /\ status_label' = ErrorStatus
                          /\ UiCall("sp_set", "poll_err")
                          /\ UNCHANGED ui_upd
    /\ lvl' = Hist("lvl", IF q_ui = <<>>
                              THEN [lvl EXCEPT !.drained = TRUE, !.at = lvl.put]
                              ELSE IF Head(q_ui)[1] = "DB"
                                      THEN [lvl EXCEPT !.drained = FALSE]
                                      ELSE lvl, lvl)
    /\ ovl' = Hist("ovl", IF q_ui # <<>> /\ Head(q_ui)[1] = "ERR"
                              THEN [ovl EXCEPT
                                      !.handling = IF ovl.stale > 0 THEN "stale"
                                                                    ELSE "fresh",
                                      !.stale = IF ovl.stale > 0 THEN @ - 1 ELSE 0]
                              ELSE ovl, ovl)
    /\ UNCHANGED <<sharedVars, start_req, stop_req, th_var, shape_var,
                   push_job, start_btn, stop_btn, q_cmd, monVars, httpVars,
                   cyc, req, err, last_put, focus, stp, rem, ttsVars, calVars,
                   nop, drn, fn>>

\* stop() has returned into the "ERR" branch; the while loop goes round
UiPollErrDone ==
    /\ ui_pc = "poll_err"
    /\ ui_pc' = "poll_get"
    /\ err' = Hist("err", [err EXCEPT !.handled = TRUE], err)
    /\ ovl' = Hist("ovl", [ovl EXCEPT !.handling = "none"], ovl)
    /\ UNCHANGED <<sharedVars, ui_stack, ui_upd, start_req, stop_req, th_var,
                   shape_var, push_job, status_label, start_btn, stop_btn,
                   queueVars, monVars, httpVars, cyc, req, last_put, focus,
                   stp, lvl, rem, ttsVars, calVars, nop, drn, fn>>

\* the requests poll_ui is about to act on
PollRequests ==
    [ovl EXCEPT !.both = start_req /\ stop_req,
                !.did = IF start_req THEN <<"start">> ELSE <<>>]

\* if start_req: start() / elif stop_req: stop()
UiPollStartElif ==
    /\ ui_pc = "poll_start"
    /\ IF start_req
          THEN UiCall("st_chk", "poll_stop")
          ELSE ui_pc' = "poll_stop" /\ UNCHANGED ui_stack
    /\ start_req' = FALSE
    /\ stop_req' = (stop_req /\ ~start_req)
    /\ req' = Hist("req", [req EXCEPT !.call = NoCall], req)
    /\ ovl' = Hist("ovl", PollRequests, ovl)
    /\ UNCHANGED <<sharedVars, ui_upd, th_var, shape_var, push_job,
                   status_label, start_btn, stop_btn, queueVars, monVars,
                   httpVars, cyc, err, last_put, focus, stp, lvl, rem,
                   ttsVars, calVars, nop, drn, fn>>

\* if start_req: start()   (start_req is not read again in this poll)
UiPollStart ==
    /\ ui_pc = "poll_start"
    /\ IF start_req
          THEN UiCall("st_chk", "poll_stop")
          ELSE ui_pc' = "poll_stop" /\ UNCHANGED ui_stack
    /\ start_req' = FALSE
    /\ req' = Hist("req", [req EXCEPT !.call = NoCall], req)
    /\ ovl' = Hist("ovl", PollRequests, ovl)
    /\ UNCHANGED <<sharedVars, ui_upd, stop_req, th_var, shape_var, push_job,
                   status_label, start_btn, stop_btn, queueVars, monVars,
                   httpVars, cyc, err, last_put, focus, stp, lvl, rem,
                   ttsVars, calVars, nop, drn, fn>>

\* if stop_req: stop()   (stop_req is not read again in this poll)
UiPollStop ==
    /\ ui_pc = "poll_stop"
    /\ IF stop_req
          THEN UiCall("sp_set", "poll_th")
          ELSE ui_pc' = "poll_th" /\ UNCHANGED ui_stack
    /\ stop_req' = FALSE
    /\ nop' = Hist("nop", IF stop_req /\ ~is_monitoring /\ ~MonitorAlive
                              THEN [on |-> TRUE, done |-> FALSE,
                                    th |-> threshold, db |-> current_db,
                                    mon |-> mon_pc]
                              ELSE nop, nop)
    /\ ovl' = Hist("ovl", IF stop_req THEN [ovl EXCEPT !.did = Append(@, "stop")]
                                      ELSE ovl, ovl)
    /\ UNCHANGED <<sharedVars, ui_upd, start_req, th_var, shape_var, push_job,
                   status_label, start_btn, stop_btn, queueVars, monVars,
                   httpVars, cyc, req, err, last_put, focus, stp, lvl, rem,
                   drn, ttsVars, calVars, fn>>

\* if abs(shared_state.threshold - th_var.get()) > 0.1:  (read without the lock)
UiPollThresh ==
    /\ ui_pc = "poll_th"
    /\ ui_pc' = IF Abs(threshold - th_var) * 10 > 1 THEN "poll_th_set" ELSE "idle"
    /\ nop' = Hist("nop", NewNoop, nop)
    /\ ovl' = Hist("ovl", [ovl EXCEPT !.both = FALSE, !.did = <<>>], ovl)
    /\ UNCHANGED <<sharedVars, ui_stack, ui_upd, start_req, stop_req, th_var,
                   shape_var, push_job, status_label, start_btn, stop_btn,
                   queueVars, monVars, httpVars, cyc, req, err, last_put,
                   focus, stp, lvl, rem, drn, ttsVars, calVars, fn>>

\* th_var.set(shared_state.threshold); ...; schedule_push_settings()
UiPollThreshSet ==
    /\ ui_pc = "poll_th_set"
    /\ th_var' = threshold
    /\ SchedulePush
    /\ ui_pc' = "idle"
    /\ UNCHANGED <<sharedVars, ui_stack, ui_upd, start_req, stop_req,
                   shape_var, status_label, start_btn, stop_btn, queueVars,
                   monVars, httpVars, histVars, ttsVars, calVars, fn>>

\* ---- the other events of the Tk main loop ---------------------------------
\* (while the calibration window is open it has the grab, calib_window.grab_set(),
\* and the main window takes no input; the timers go on firing)

\* start_btn pressed (command=start); the button is there only when enabled
UiClickStart ==
    /\ ui_pc = "idle"
    /\ ~calib_window
    /\ start_btn
    /\ UiCall("st_chk", "idle")
    /\ UNCHANGED <<sharedVars, ui_upd, start_req, stop_req, th_var, shape_var,
                   push_job, status_label, start_btn, stop_btn, queueVars,
                   monVars, httpVars, histVars, ttsVars, calVars, fn>>

\* stop_btn pressed (command=stop)
UiClickStop ==
    /\ ui_pc = "idle"
    /\ ~calib_window
    /\ stop_btn
    /\ UiCall("sp_set", "idle")
    /\ UNCHANGED <<sharedVars, ui_upd, start_req, stop_req, th_var, shape_var,
                   push_job, status_label, start_btn, stop_btn, queueVars,
                   monVars, httpVars, histVars, ttsVars, calVars, fn>>

\* ---- on_close (2068-2096) ---------------------------------------------------

\* the window's close button (WM_DELETE_WINDOW): on_close calls stop()
UiClose ==
    /\ ui_pc = "idle"
    /\ ~calib_window
    /\ UiCall("sp_set", "oc_web")
    /\ UNCHANGED <<sharedVars, ui_upd, start_req, stop_req, th_var, shape_var,
                   push_job, status_label, start_btn, stop_btn, queueVars,
                   monVars, httpVars, histVars, ttsVars, calVars, fn>>

\* stop_web_server(): web_server.stop() sets should_stop, sleeps 0.6 s and
\* closes the server socket; web_server.join(timeout=2)
UiCloseWeb ==
    /\ ui_pc = "oc_web"
    /\ ui_pc' = "oc_tts"
    /\ UNCHANGED <<sharedVars, ui_stack, ui_upd, start_req, stop_req, th_var,
                   shape_var, push_job, status_label, start_btn, stop_btn,
                   queueVars, monVars, httpVars, histVars, ttsVars, calVars,
                   fn>>

\* tts_worker.stop(): self.stop_event.set(); then save_cfg and
\* root.destroy(): no callback of the window runs any more
UiCloseTts ==
    /\ ui_pc = "oc_tts"
    /\ stop_event' = TRUE
    /\ ui_pc' = "closed"
    /\ UNCHANGED <<sharedVars, ui_stack, ui_upd, start_req, stop_req, th_var,
                   shape_var, push_job, status_label, start_btn, stop_btn,
                   queueVars, monVars, httpVars, histVars, tts_engine,
                   tts_queue, tts_pc, tts_msg, http_msg, http_res, sp, calVars,
                   fn>>

UiCloseStep == UiClose \/ UiCloseWeb \/ UiCloseTts

\* the threshold scale moved to v: th_var follows the scale, then
\* on_threshold_change(v): shared_state.update_threshold(val)
UiThresholdChange ==
    /\ ui_pc = "idle"
    /\ ~calib_window
    /\ \E v \in ThreshVals \ {th_var} :
          /\ th_var' = v
          /\ ui_upd' = [f |-> "threshold", v |-> v]
    /\ UiCall("upd_acq", "otc_sched")
    /\ rem' = Hist("adopt", [rem EXCEPT !.on = FALSE], rem)
    /\ UNCHANGED <<sharedVars, start_req, stop_req, shape_var, push_job,
                   status_label, start_btn, stop_btn, queueVars, monVars,
                   httpVars, cyc, req, err, last_put, focus, stp, lvl,
                   ttsVars, calVars, hist3, fn>>

\* on_threshold_change: schedule_push_settings()
UiThresholdSchedule ==
    /\ ui_pc = "otc_sched"
    /\ SchedulePush
    /\ ui_pc' = "idle"
    /\ UNCHANGED <<sharedVars, ui_stack, ui_upd, start_req, stop_req, th_var,
                   shape_var, status_label, start_btn, stop_btn, queueVars,
                   monVars, httpVars, histVars, ttsVars, calVars, fn>>

\* another shape chosen in shape_combo (no callback: it is read at the next
\* push_settings)
UiShapeChange ==
    /\ ui_pc = "idle"
    /\ ~calib_window
    /\ \E sh \in Shapes \ {shape_var} : shape_var' = sh
    /\ UNCHANGED <<sharedVars, ui_pc, ui_stack, ui_upd, start_req, stop_req,
                   th_var, push_job, status_label, start_btn, stop_btn,
                   queueVars, monVars, httpVars, histVars, ttsVars, calVars,
                   fn>>

\* the root.after(250, push_settings) job fires
UiPushJobFire ==
    /\ ui_pc = "idle"
    /\ push_job
    /\ push_job' = FALSE
    /\ UiCall("ps_begin", "idle")
    /\ UNCHANGED <<sharedVars, ui_upd, start_req, stop_req, th_var, shape_var,
                   status_label, start_btn, stop_btn, queueVars, monVars,
                   httpVars, histVars, ttsVars, calVars, fn>>

\* ---- calibrate (1857-1945) -------------------------------------------------

\* ambient levels a calibration capture yields, in dB (the levels of a
\* capture that is not all zero)
CalAmbients == {-70, -40}

\* new_threshold = round(ambient + 10, 1); new_value = max(new_threshold, -50)
\* for an ambient level of whole dB, which round(., 1) leaves as it is
CalFloor == -50
Suggested(ambient) == IF ambient + 10 > CalFloor THEN ambient + 10 ELSE CalFloor

\* the dialogs of calibrate
NoDevice == "No valid input device selected."
NoRecording == "Could not record audio"
NoAudio == "No audio data received. Please check your microphone."
Calibrated == "Calibration Successful!"
CalErrors == {NoDevice, NoRecording, NoAudio}

\* calib_btn pressed (command=calibrate): without a valid input device the
\* error dialog and return; else the window is opened with the grab and
\* calib_window.update() handles the events that are due (the timers: the
\* main thread is between callbacks until the capture begins)
UiCalibrate ==
    /\ ui_pc = "idle"
    /\ ~calib_window
    /\ \E device \in BOOLEAN :
          /\ calib_window' = device
          /\ messagebox' = IF device THEN "none" ELSE NoDevice
    /\ UNCHANGED <<sharedVars, ui_pc, ui_stack, ui_upd, start_req, stop_req,
                   th_var, shape_var, push_job, status_label, start_btn,
                   stop_btn, queueVars, monVars, httpVars, histVars, ttsVars,
                   rec_flat, fn>>

\* update() has returned; pa.open(...), stream.read(frames): the main thread
\* is in the two-second capture
UiCalRecord ==
    /\ ui_pc = "idle"
    /\ calib_window
    /\ ui_pc' = "cal_rec"
    /\ UNCHANGED <<sharedVars, ui_stack, ui_upd, start_req, stop_req, th_var,
                   shape_var, push_job, status_label, start_btn, stop_btn,
                   queueVars, monVars, httpVars, histVars, ttsVars, calVars,
                   fn>>

\* what a calibration capture does: it raises, it is empty or all zero, or
\* it has an ambient level
CalCaptures ==
    {[is |-> "raise", ambient |-> 0], [is |-> "zero", ambient |-> 0]}
        \cup {[is |-> "level", ambient |-> a] : a \in CalAmbients}

\* the capture ends: audio_data = stream.read(frames) has raised or returned
UiCalCapture ==
    /\ ui_pc = "cal_rec"
    /\ \E c \in CalCaptures : rec_flat' = c
    /\ ui_pc' = "cal_test"
    /\ UNCHANGED <<sharedVars, ui_stack, ui_upd, start_req, stop_req, th_var,
                   shape_var, push_job, status_label, start_btn, stop_btn,
                   queueVars, monVars, httpVars, histVars, ttsVars,
                   calib_window, messagebox, fn>>

\* the rest of calibrate after the capture c: an error dialog and return, or
\* thresh_scale.set(new_value), which moves th_var and calls
\* on_threshold_change(new_value): shared_state.update_threshold(val)
CalOutcome(c) ==
    /\ calib_window' = FALSE
    /\ rec_flat' = NoCapture
    /\ IF c.is \in {"raise", "zero"}
          THEN /\ messagebox' = IF c.is = "raise" THEN NoRecording ELSE NoAudio
               /\ ui_pc' = "idle"
               /\ UNCHANGED <<ui_stack, ui_upd, th_var>>
          ELSE /\ messagebox' = messagebox
               /\ th_var' = Suggested(c.ambient)
               /\ ui_upd' = [f |-> "threshold", v |-> Suggested(c.ambient)]
               /\ UiCall("upd_acq", "cal_done")

\* calibrate without the test for an empty or all-zero capture: rms is 0,
\* ambient is -100 and the suggestion is applied
UiCalResultNoTest ==
    /\ ui_pc = "cal_test"
    /\ CalOutcome(IF rec_flat.is = "zero"
                     THEN [is |-> "level", ambient |-> -100] ELSE rec_flat)
    /\ UNCHANGED <<sharedVars, start_req, stop_req, shape_var, push_job,
                   status_label, start_btn, stop_btn, queueVars, monVars,
                   httpVars, histVars, ttsVars, fn>>

\* except Exception: ... return / if ... all(r == 0 for r in rec_flat): ...
\* return / rms, ambient, new_value; thresh_scale.set(float(new_value))
UiCalResult ==
    /\ ui_pc = "cal_test"
    /\ CalOutcome(rec_flat)
    /\ UNCHANGED <<sharedVars, start_req, stop_req, shape_var, push_job,
                   status_label, start_btn, stop_btn, queueVars, monVars,
                   httpVars, histVars, ttsVars, fn>>

\* on_threshold_change: schedule_push_settings(); back in calibrate:
\* messagebox.showinfo("Calibration Complete", ...)
UiCalDone ==
    /\ ui_pc = "cal_done"
    /\ SchedulePush
    /\ messagebox' = Calibrated
    /\ ui_pc' = "idle"
    /\ UNCHANGED <<sharedVars, ui_stack, ui_upd, start_req, stop_req, th_var,
                   shape_var, status_label, start_btn, stop_btn, queueVars,
                   monVars, httpVars, histVars, ttsVars, calib_window,
                   rec_flat, fn>>

UiCalStep ==
    UiCalibrate \/ UiCalRecord \/ UiCalCapture \/ UiCalResult \/ UiCalDone

\* poll_ui and all it calls, but for the threshold taken over from shared state
UiPollStep ==
    \/ UiPollBegin \/ UiPollGet \/ UiPollErrDone
    \/ UiCwAcquire \/ UiCwReadStart \/ UiCwReadStop \/ UiCwClearStart
    \/ UiCwClearStop
    \/ UiPollStart \/ UiPollStop \/ UiPollThresh
    \/ UiStartCheck \/ UiStartRun \/ UiStopSet \/ UiStopJoin \/ UiStopLabels
    \/ UiPushBegin \/ UiPushPut \/ UiUpdAcquire \/ UiUpdWrite

\* the operator at the window: the buttons and the threshold scale
UiLocalStep ==
    \/ UiClickStart \/ UiClickStop \/ UiThresholdChange \/ UiThresholdSchedule
    \/ UiPushJobFire

UiStep ==
    \/ UiPollStep \/ UiPollThreshSet \/ UiLocalStep \/ UiShapeChange
    \/ UiCalStep
    \/ UiCloseStep

\* ---- the HTTP handlers, on the WebServerThread (1362-1381) ----------------

\* get_state without "with self.lock:"
HttpGetNoLock ==
    /\ http_pc = "idle"
    /\ http_pc' = "gs_rd_th"
    /\ UNCHANGED <<sharedVars, uiVars, queueVars, monVars, http_arg,
                   http_snap, histVars, ttsVars, fn>>

\* GET /get_state: shared_state.get_state(): with self.lock:
HttpGetAcquire ==
    /\ http_pc = "idle"
    /\ ~ServerClosed
    /\ lock = "free"
    /\ lock' = "http"
    /\ http_pc' = "gs_rd_th"
    /\ UNCHANGED <<threshold, is_monitoring, current_db, web_start_requested,
                   web_stop_requested, uiVars, queueVars, monVars, http_arg,
                   http_snap, histVars, ttsVars, fn>>

\* 'threshold': self.threshold
HttpGetReadThreshold ==
    /\ http_pc = "gs_rd_th"
    /\ http_snap' = [http_snap EXCEPT !.threshold = threshold]
    /\ http_pc' = "gs_rd_mon"
    /\ UNCHANGED <<sharedVars, uiVars, queueVars, monVars, http_arg, histVars,
                   ttsVars, fn>>

\* 'is_monitoring': self.is_monitoring
HttpGetReadMonitoring ==
    /\ http_pc = "gs_rd_mon"
    /\ http_snap' = [http_snap EXCEPT !.is_monitoring = is_monitoring]
    /\ http_pc' = "gs_rd_db"
    /\ UNCHANGED <<sharedVars, uiVars, queueVars, monVars, http_arg, histVars,
                   ttsVars, fn>>

\* 'current_db': self.current_db: the dict is complete
HttpGetReadDb ==
    /\ http_pc = "gs_rd_db"
    /\ http_snap' = [http_snap EXCEPT !.current_db = current_db]
    /\ http_pc' = "gs_rel"
    /\ UNCHANGED <<sharedVars, uiVars, queueVars, monVars, http_arg, histVars,
                   ttsVars, fn>>

\* return {...}: the lock released, the snapshot sent (jsonify)
HttpGetReturn ==
    /\ http_pc = "gs_rel"
    /\ lock' = "free"
    /\ http_snap' = NoSnap
    /\ http_pc' = "idle"
    /\ UNCHANGED <<threshold, is_monitoring, current_db, web_start_requested,
                   web_stop_requested, uiVars, queueVars, monVars, http_arg,
                   histVars, ttsVars, fn>>

\* POST /set_threshold {threshold: v}: shared_state.update_threshold(v):
\* with self.lock:
HttpSetThreshold ==
    /\ http_pc = "idle"
    /\ ~ServerClosed
    /\ lock = "free"
    /\ rem.n < MaxRemote
    /\ \E v \in ThreshVals : http_arg' = v
    /\ lock' = "http"
    /\ http_pc' = "th_wr"
    /\ UNCHANGED <<threshold, is_monitoring, current_db, web_start_requested,
                   web_stop_requested, uiVars, queueVars, monVars, http_snap,
                   histVars, ttsVars, fn>>

\* set_threshold answering without writing the threshold to shared state
HttpThresholdDefer ==
    /\ http_pc = "th_wr"
    /\ threshold' = threshold
    /\ lock' = "free"
    /\ http_arg' = 0
    /\ http_pc' = "idle"
    /\ rem' = Hist("adopt", [rem EXCEPT !.v = http_arg, !.on = TRUE,
                                        !.run = MonitorAlive,
                                        !.n = rem.n + 1],
                   Hist("rem", [rem EXCEPT !.v = http_arg, !.fresh = TRUE], rem))
    /\ UNCHANGED <<is_monitoring, current_db, web_start_requested,
                   web_stop_requested, uiVars, queueVars, monVars, http_snap,
                   cyc, req, err, last_put, focus, stp, lvl, ttsVars, hist3,
                   fn>>

\* self.threshold = value (lock released); return jsonify({'success': True})
HttpThresholdWrite ==
    /\ http_pc = "th_wr"
    /\ threshold' = http_arg
    /\ lock' = "free"
    /\ http_arg' = 0
    /\ http_pc' = "idle"
    /\ rem' = Hist("adopt", [rem EXCEPT !.v = http_arg, !.on = TRUE,
                                        !.run = MonitorAlive,
                                        !.n = rem.n + 1],
                   Hist("rem", [rem EXCEPT !.v = http_arg, !.fresh = TRUE], rem))
    /\ UNCHANGED <<is_monitoring, current_db, web_start_requested,
                   web_stop_requested, uiVars, queueVars, monVars, http_snap,
                   cyc, req, err, last_put, focus, stp, lvl, ttsVars, hist3,
                   fn>>

\* POST /start_monitoring arrives; start_monitoring_web is entered
HttpStartBegin ==
    /\ http_pc = "idle"
    /\ ~ServerClosed
    /\ http_pc' = "start_w"
    /\ UNCHANGED <<sharedVars, uiVars, queueVars, monVars, http_arg,
                   http_snap, histVars, ttsVars, fn>>

\* shared_state.web_start_requested = True   (no lock taken)
HttpStartWrite ==
    /\ http_pc = "start_w"
    /\ web_start_requested' = TRUE
    /\ http_pc' = "idle"
    /\ req' = Hist("req", [Hist("und", [req EXCEPT !.undS = TRUE], req)
                               EXCEPT !.nS = IF UiInCheck THEN @ ELSE Inc(@, MaxReq),
                                      !.dS = IF UiInCheck THEN TRUE ELSE @],
                            Hist("und", [req EXCEPT !.undS = TRUE], req))
    /\ UNCHANGED <<threshold, is_monitoring, current_db, web_stop_requested,
                   lock, uiVars, queueVars, monVars, http_arg, http_snap, cyc,
                   err, last_put, focus, stp, lvl, rem, ttsVars, hist3, fn>>

\* POST /stop_monitoring arrives; stop_monitoring_web is entered
HttpStopBegin ==
    /\ http_pc = "idle"
    /\ ~ServerClosed
    /\ http_pc' = "stop_w"
    /\ UNCHANGED <<sharedVars, uiVars, queueVars, monVars, http_arg,
                   http_snap, histVars, ttsVars, fn>>

\* shared_state.web_stop_requested = True   (no lock taken)
HttpStopWrite ==
    /\ http_pc = "stop_w"
    /\ web_stop_requested' = TRUE
    /\ http_pc' = "idle"
    /\ req' = Hist("req", [Hist("und", [req EXCEPT !.undT = TRUE], req)
                               EXCEPT !.nT = IF UiInCheck THEN @ ELSE Inc(@, MaxReq),
                                      !.dT = IF UiInCheck THEN TRUE ELSE @],
                            Hist("und", [req EXCEPT !.undT = TRUE], req))
    /\ UNCHANGED <<threshold, is_monitoring, current_db, web_start_requested,
                   lock, uiVars, queueVars, monVars, http_arg, http_snap, cyc,
                   err, last_put, focus, stp, lvl, rem, ttsVars, hist3, fn>>

HttpStateStep ==
    \/ HttpGetAcquire \/ HttpGetReadThreshold \/ HttpGetReadMonitoring
    \/ HttpGetReadDb \/ HttpGetReturn
    \/ HttpSetThreshold \/ HttpThresholdWrite

HttpRequestStep ==
    \/ HttpStartBegin \/ HttpStartWrite \/ HttpStopBegin \/ HttpStopWrite

\* ---- speech: send_message, add_tts_message, TTSWorker -----------------------

\* str.strip() and len()
Strip(m) == [m EXCEPT !.lead = 0, !.trail = 0]
MsgLen(m) == m.lead + m.core + m.trail

\* POST /send_message arrives: data = request.get_json();
\* message = data.get('message', '').strip(). A body that is no JSON object
\* or a message that is no string raises, and the handler's
\* "except Exception" answers success False
HttpSendBegin ==
    /\ http_pc = "idle"
    /\ ~ServerClosed
    /\ sp.sent < MaxMsgs
    /\ \E bad \in BOOLEAN, l \in PadLens, c \in CoreLens, t \in PadLens :
          LET raw == IF bad THEN NoMsg
                     ELSE [tag |-> sp.sent + 1, lead |-> l, core |-> c, trail |-> t]
          IN  /\ (bad => (l = 0 /\ c = 0 /\ t = 0))
              /\ sp' = [sp EXCEPT !.sent = sp.sent + 1, !.raw = raw, !.bad = bad]
              /\ http_msg' = Strip(raw)
              /\ http_res' = IF bad THEN [success |-> FALSE, error |-> "exception"]
                                    ELSE NoRes
              /\ http_pc' = IF bad THEN "sm_ret" ELSE "sm_check"
    /\ UNCHANGED <<sharedVars, uiVars, queueVars, monVars, http_arg,
                   http_snap, histVars, tts_engine, stop_event, tts_queue, tts_pc,
                   tts_msg, fn>>

\* the length limit missing from send_message
HttpSendCheckNoLimit ==
    /\ http_pc = "sm_check"
    /\ IF MsgLen(http_msg) = 0
          THEN /\ http_res' = [success |-> FALSE, error |-> "No message provided"]
               /\ http_pc' = "sm_ret"
          ELSE /\ http_res' = http_res
               /\ http_pc' = "sm_add"
    /\ UNCHANGED <<sharedVars, uiVars, queueVars, monVars, http_arg,
                   http_snap, histVars, tts_engine, stop_event, tts_queue, tts_pc,
                   tts_msg, http_msg, sp, fn>>

\* "if len(message) > 501"
HttpSendCheckLoose ==
    /\ http_pc = "sm_check"
    /\ IF MsgLen(http_msg) = 0
          THEN /\ http_res' = [success |-> FALSE, error |-> "No message provided"]
               /\ http_pc' = "sm_ret"
          ELSE IF MsgLen(http_msg) > MaxMsgLen + 1
          THEN /\ http_res' = [success |-> FALSE, error |-> "Message too long"]
               /\ http_pc' = "sm_ret"
          ELSE /\ http_res' = http_res
               /\ http_pc' = "sm_add"
    /\ UNCHANGED <<sharedVars, uiVars, queueVars, monVars, http_arg,
                   http_snap, histVars, tts_engine, stop_event, tts_queue, tts_pc,
                   tts_msg, http_msg, sp, fn>>

\* if not message: ...; if len(message) > 500: ...
HttpSendCheck ==
    /\ http_pc = "sm_check"
    /\ IF MsgLen(http_msg) = 0
          THEN /\ http_res' = [success |-> FALSE, error |-> "No message provided"]
               /\ http_pc' = "sm_ret"
          ELSE IF MsgLen(http_msg) > MaxMsgLen
          THEN /\ http_res' = [success |-> FALSE, error |-> "Message too long"]
               /\ http_pc' = "sm_ret"
          ELSE /\ http_res' = http_res
               /\ http_pc' = "sm_add"
    /\ UNCHANGED <<sharedVars, uiVars, queueVars, monVars, http_arg,
                   http_snap, histVars, tts_engine, stop_event, tts_queue, tts_pc,
                   tts_msg, http_msg, sp, fn>>

\* add_tts_message putting the message whether or not there is an engine
HttpSendAddAlways ==
    /\ http_pc = "sm_add"
    /\ tts_queue' = Append(tts_queue, http_msg)
    /\ sp' = [sp EXCEPT !.enq = Append(sp.enq, http_msg.tag)]
    /\ http_pc' = "sm_ok"
    /\ UNCHANGED <<sharedVars, uiVars, queueVars, monVars, http_arg,
                   http_snap, histVars, tts_engine, stop_event, tts_pc, tts_msg, http_msg,
                   http_res, fn>>

\* send_message waiting for the speech (tts_queue.join()) after the put
HttpSendAddAndWait ==
    /\ http_pc = "sm_add"
    /\ tts_queue = <<>> /\ tts_pc = "get"
    /\ IF tts_engine /\ MsgLen(Strip(http_msg)) > 0
          THEN /\ tts_queue' = Append(tts_queue, http_msg)
               /\ sp' = [sp EXCEPT !.enq = Append(sp.enq, http_msg.tag)]
          ELSE UNCHANGED <<tts_queue, sp>>
    /\ http_pc' = "sm_ok"
    /\ UNCHANGED <<sharedVars, uiVars, queueVars, monVars, http_arg,
                   http_snap, histVars, tts_engine, stop_event, tts_pc, tts_msg, http_msg,
                   http_res, fn>>

\* shared_state.add_tts_message(message):
\* if self.tts_engine and message.strip(): self.tts_queue.put(message)
HttpSendAdd ==
    /\ http_pc = "sm_add"
    /\ IF tts_engine /\ MsgLen(Strip(http_msg)) > 0
          THEN /\ tts_queue' = Append(tts_queue, http_msg)
               /\ sp' = [sp EXCEPT !.enq = Append(sp.enq, http_msg.tag)]
          ELSE UNCHANGED <<tts_queue, sp>>
    /\ http_pc' = "sm_ok"
    /\ UNCHANGED <<sharedVars, uiVars, queueVars, monVars, http_arg,
                   http_snap, histVars, tts_engine, stop_event, tts_pc, tts_msg, http_msg,
                   http_res, fn>>

\* return jsonify({'success': True, 'message': 'Message queued for speech'})
HttpSendOk ==
    /\ http_pc = "sm_ok"
    /\ http_res' = [success |-> TRUE, error |-> "none"]
    /\ http_pc' = "sm_ret"
    /\ UNCHANGED <<sharedVars, uiVars, queueVars, monVars, http_arg,
                   http_snap, histVars, tts_engine, stop_event, tts_queue, tts_pc,
                   tts_msg, http_msg, sp, fn>>

\* the response is sent; the server takes the next request
HttpSendReturn ==
    /\ http_pc = "sm_ret"
    /\ http_pc' = "idle"
    /\ http_msg' = NoMsg
    /\ http_res' = NoRes
    /\ sp' = [sp EXCEPT !.raw = NoMsg, !.bad = FALSE]
    /\ UNCHANGED <<sharedVars, uiVars, queueVars, monVars, http_arg,
                   http_snap, histVars, tts_engine, stop_event, tts_queue, tts_pc,
                   tts_msg, fn>>

HttpSendStep ==
    \/ HttpSendBegin \/ HttpSendCheck \/ HttpSendAdd \/ HttpSendOk
    \/ HttpSendReturn

\* while not self.stop_event.is_set(): where the worker is after a cycle
AtLoopTest == IF stop_event THEN "dead" ELSE "get"

\* the worker taking the newest message instead of the oldest
TtsGetLast ==
    /\ tts_pc = "get"
    /\ tts_queue # <<>>
    /\ tts_msg' = tts_queue[Len(tts_queue)]
    /\ tts_queue' = SubSeq(tts_queue, 1, Len(tts_queue) - 1)
    /\ tts_pc' = IF tts_engine THEN "say" ELSE "done"
    /\ sp' = [sp EXCEPT !.deq = Append(sp.deq, tts_msg'.tag),
                        !.started = IF tts_engine
                                       THEN Append(sp.started, tts_msg'.tag)
                                       ELSE sp.started,
                        !.late = IF tts_engine /\ stop_event
                                    THEN Inc(sp.late, 2) ELSE sp.late]
    /\ UNCHANGED <<sharedVars, uiVars, queueVars, monVars, httpVars, histVars,
                   tts_engine, stop_event, http_msg, http_res, fn>>

\* message = self.shared_state.tts_queue.get(timeout=1.0);
\* if self.shared_state.tts_engine: ... say(message)
\* (queue.Empty after the timeout: continue, which changes nothing)
TtsGet ==
    /\ tts_pc = "get"
    /\ tts_queue # <<>>
    /\ tts_msg' = Head(tts_queue)
    /\ tts_queue' = Tail(tts_queue)
    /\ tts_pc' = IF tts_engine THEN "say" ELSE "done"
    /\ sp' = [sp EXCEPT !.deq = Append(sp.deq, tts_msg'.tag),
                        !.started = IF tts_engine
                                       THEN Append(sp.started, tts_msg'.tag)
                                       ELSE sp.started,
                        !.late = IF tts_engine /\ stop_event
                                    THEN Inc(sp.late, 2) ELSE sp.late]
    /\ UNCHANGED <<sharedVars, uiVars, queueVars, monVars, httpVars, histVars,
                   tts_engine, stop_event, http_msg, http_res, fn>>

\* a worker that puts the message back when its speech raises
TtsSayRetry ==
    /\ tts_pc = "say"
    /\ \E ok \in BOOLEAN :
          /\ tts_pc' = IF ok THEN "done" ELSE "get"
          /\ tts_msg' = IF ok THEN tts_msg ELSE NoMsg
          /\ tts_queue' = IF ok THEN tts_queue ELSE Append(tts_queue, tts_msg)
          /\ sp' = [sp EXCEPT !.ended = sp.ended \cup {tts_msg.tag},
                              !.failed = IF ok THEN sp.failed
                                               ELSE sp.failed \cup {tts_msg.tag}]
    /\ UNCHANGED <<sharedVars, uiVars, queueVars, monVars, httpVars, histVars,
                   tts_engine, stop_event, http_msg, http_res, fn>>

\* run() without its "except Exception": a speech that raises ends the thread
TtsSayFatal ==
    /\ tts_pc = "say"
    /\ \E ok \in BOOLEAN :
          /\ tts_pc' = IF ok THEN "done" ELSE "dead"
          /\ tts_msg' = IF ok THEN tts_msg ELSE NoMsg
          /\ sp' = [sp EXCEPT !.ended = sp.ended \cup {tts_msg.tag},
                              !.failed = IF ok THEN sp.failed
                                               ELSE sp.failed \cup {tts_msg.tag}]
    /\ UNCHANGED <<sharedVars, uiVars, queueVars, monVars, httpVars, histVars,
                   tts_engine, stop_event, tts_queue, http_msg, http_res, fn>>

\* tts_engine.say(message); tts_engine.runAndWait(): the speech ends, or
\* raises and "except Exception" prints the error: the message is gone and
\* the loop goes round
TtsSay ==
    /\ tts_pc = "say"
    /\ \E ok \in BOOLEAN :
          /\ tts_pc' = IF ok THEN "done" ELSE AtLoopTest
          /\ tts_msg' = IF ok THEN tts_msg ELSE NoMsg
          /\ sp' = [sp EXCEPT !.ended = sp.ended \cup {tts_msg.tag},
                              !.failed = IF ok THEN sp.failed
                                               ELSE sp.failed \cup {tts_msg.tag}]
    /\ UNCHANGED <<sharedVars, uiVars, queueVars, monVars, httpVars, histVars,
                   tts_engine, stop_event, tts_queue, http_msg, http_res, fn>>

\* a worker whose loop is `while True`
TtsDoneNoTest ==
    /\ tts_pc = "done"
    /\ tts_pc' = "get"
    /\ tts_msg' = NoMsg
    /\ UNCHANGED <<sharedVars, uiVars, queueVars, monVars, httpVars, histVars,
                   tts_engine, stop_event, tts_queue, http_msg, http_res, sp, fn>>

\* self.shared_state.tts_queue.task_done(); while not self.stop_event.is_set()
TtsDone ==
    /\ tts_pc = "done"
    /\ tts_pc' = AtLoopTest
    /\ tts_msg' = NoMsg
    /\ UNCHANGED <<sharedVars, uiVars, queueVars, monVars, httpVars, histVars,
                   tts_engine, stop_event, tts_queue, http_msg, http_res, sp, fn>>

\* except queue.Empty: continue, with stop_event set: get(timeout=1.0) found
\* nothing for a second and the loop test ends run()
TtsTimeout ==
    /\ tts_pc = "get"
    /\ tts_queue = <<>>
    /\ stop_event
    /\ tts_pc' = "dead"
    /\ UNCHANGED <<sharedVars, uiVars, queueVars, monVars, httpVars, histVars,
                   tts_engine, stop_event, tts_queue, tts_msg, http_msg,
                   http_res, sp, fn>>

TtsStep == TtsGet \/ TtsSay \/ TtsDone

\* ---- gen_wave and linspace (23-28, 202-214) ---------------------------------

Fs == 44100                         \* fs = 44100
WaveShapes == {"Sine", "Square", "Saw"}

\* int(x) of a quotient n/d that is not negative: the fraction is cut off
IntOf(n, d) == n \div d

\* len(linspace(start, stop, num)): [start] if num <= 1, else num values
LinspaceLen(num) == IF num <= 1 THEN 1 ELSE num

\* len(audio) in gen_wave(shape, freq, ms, volume):
\* t = linspace(0, ms/1000, int(fs*ms/1000)); each branch makes one value of
\* wave for each value of t, and audio has one sample for each value of wave
GenWaveLen(shape, ms) ==
    LET t == LinspaceLen(IntOf(Fs * ms, 1000))
        wave == CASE shape = "Sine" -> t
                  [] shape = "Square" -> t
                  [] OTHER -> t
    IN  wave

\* gen_wave applied to the input in fn
GenWave ==
    /\ fn.f = "gen_wave" /\ ~fn.done
    /\ fn' = [fn EXCEPT !.done = TRUE, !.len = GenWaveLen(fn.shape, fn.ms)]
    /\ UNCHANGED <<sharedVars, uiVars, queueVars, monVars, httpVars, histVars,
                   ttsVars>>

\* ---- the level of a capture buffer (244-245, 280-282) ----------------------

\* samples, in units of full scale: 0, 1.0, and -2.0, which clip brings to -1.0
SampleVals == {-2, 0, 1}

\* clip(value, -1.0, 1.0) of one sample
Clip(v) == IF v < -1 THEN -1 ELSE IF v > 1 THEN 1 ELSE v

\* sum([r*r for r in rec_clipped]); mean divides it by len(rec_clipped)
RECURSIVE SumSq(_)
SumSq(buf) == IF buf = <<>> THEN 0 ELSE Clip(Head(buf)) * Clip(Head(buf)) + SumSq(Tail(buf))

\* 1000 * log10(n), to the nearest integer
Log10Milli(n) ==
    CASE n = 1 -> 0 [] n = 2 -> 301 [] n = 3 -> 477 [] n = 4 -> 602
      [] n = 5 -> 699 [] n = 6 -> 778

Log10Eps == -10                     \* log10(1e-10)

\* 20*math.log10(rms) for rms = 0: log10 raises ValueError
RmsToDbNoEps(k, n) ==
    IF k = 0 THEN [raised |-> TRUE, db |-> 0]
             ELSE [raised |-> FALSE, db |-> 10 * (Log10Milli(k) - Log10Milli(n))]

\* rms = math.sqrt(mean(...)); rms_to_db(rms) = 20*math.log10(rms+1e-10), in
\* thousandths of a dB, for a buffer of n samples of which k are at full
\* scale and the others 0: rms*rms = k/n; 20*log10(1e-10) when k = 0, and
\* 10*log10(k/n) otherwise (the 1e-10 added to an rms of at least
\* sqrt(1/n) changes the result by less than a millionth of a dB)
RmsToDb(k, n) ==
    IF k = 0 THEN [raised |-> FALSE, db |-> 20 * 1000 * Log10Eps]
             ELSE [raised |-> FALSE, db |-> 10 * (Log10Milli(k) - Log10Milli(n))]

\* the level computation of Monitor.run applied to the buffer in fn
Level ==
    /\ fn.f = "level" /\ ~fn.done
    /\ fn' = [fn EXCEPT !.done = TRUE,
                        !.out = RmsToDb(SumSq(fn.buf), Len(fn.buf))]
    /\ UNCHANGED <<sharedVars, uiVars, queueVars, monVars, httpVars, histVars,
                   ttsVars>>

\* ---- the threshold calibrate suggests (1925-1931) ---------------------------
\* levels in hundredths of a dB

\* round(x, 1): the tenth nearest to x; of a level midway between two tenths
\* the binary float nearest to it decides, so either tenth may come out
RoundTenths(c) ==
    LET lo == 10 * (c \div 10)
        r == c - lo
    IN  IF r = 0 THEN {c}
        ELSE IF r < 5 THEN {lo}
        ELSE IF r > 5 THEN {lo + 10}
        ELSE {lo, lo + 10}

\* calibrate without its max(new_threshold, -50)
NewValuesNoFloor(ambient) == RoundTenths(ambient + 1000)

\* new_threshold = round(ambient + 10, 1); new_value = max(new_threshold, -50)
NewValues(ambient) ==
    {IF r > 100 * CalFloor THEN r ELSE 100 * CalFloor :
        r \in RoundTenths(ambient + 1000)}

\* ambient levels of calibration captures that are not silent: the floor of
\* -100 dB, and levels about -60 dB and -37.5 dB
CalLevels ==
    {-10000} \cup {-6000 + d : d \in (0 - CalSpan)..CalSpan}
             \cup {-3750 + d : d \in (0 - CalSpan)..CalSpan}

\* the suggestion of calibrate for the ambient level in fn
Suggest ==
    /\ fn.f = "suggest" /\ ~fn.done
    /\ \E v \in NewValues(fn.ambient) :
          fn' = [fn EXCEPT !.done = TRUE, !.new_value = v]
    /\ UNCHANGED <<sharedVars, uiVars, queueVars, monVars, httpVars, histVars,
                   ttsVars>>

\* ---- the system ------------------------------------------------------------

HttpStep == HttpStateStep \/ HttpRequestStep \/ HttpSendStep

Next == MonitorStep \/ UiStep \/ HttpStep \/ TtsStep \/ TtsTimeout

\* gen_wave, the level computation and calibrate's suggestion, each applied
\* once to an input: a shape and a duration of 0..MaxMs ms; a buffer of
\* 1..MaxBuf samples; an ambient level
Buffers == UNION {[1..n -> SampleVals] : n \in 1..MaxBuf}
FnInputs ==
    {[f |-> "gen_wave", shape |-> sh, ms |-> ms, done |-> FALSE, len |-> 0] :
        sh \in WaveShapes, ms \in 0..MaxMs}
    \cup {[f |-> "level", buf |-> b, done |-> FALSE,
            out |-> [raised |-> FALSE, db |-> 0]] : b \in Buffers}
    \cup {[f |-> "suggest", ambient |-> a, done |-> FALSE, new_value |-> 0] :
            a \in CalLevels}
InitPure == Start /\ focus = {} /\ tts_engine = TRUE /\ fn \in FnInputs
SpecPure == InitPure /\ [][GenWave \/ Level \/ Suggest]_vars

Spec == Init /\ [][Next]_vars

\* the remote start and stop requests against poll_ui and the monitor,
\* recording the requests and the check_web_requests calls
InitReq == Start /\ fn = NoFn /\ focus = {"req"} /\ tts_engine = TRUE
NextReq == MonitorStep \/ UiPollStep \/ HttpRequestStep
SpecReq == InitReq /\ [][NextReq]_vars

\* the same threads, recording only which requests no call has read yet
InitFlags == Start /\ fn = NoFn /\ focus = {"und"} /\ tts_engine = TRUE
SpecFlags == InitFlags /\ [][NextReq]_vars

\* the monitor driven from the window, recording its cycles and its errors
InitCyc == Start /\ fn = NoFn /\ focus = {"cyc", "err"} /\ tts_engine = TRUE
NextCyc == MonitorStep \/ UiPollStep \/ UiLocalStep \/ UiShapeChange
SpecCyc == InitCyc /\ [][NextCyc]_vars

\* the monitor's cycles with up to MaxQSnaps snapshots waiting in q_cmd,
\* recording what each drain takes
InitDrain == Start /\ fn = NoFn /\ focus = {"drn"} /\ tts_engine = TRUE
NextDrain == MonitorStep \/ UiPollStep \/ UiLocalStep
SpecDrain == InitDrain /\ [][NextDrain]_vars

\* shared state written from the window and the monitor's events, and read
\* by GET /get_state
NextState ==
    \/ MonitorStep \/ UiPollStep \/ UiLocalStep
    \/ HttpGetAcquire \/ HttpGetReadThreshold \/ HttpGetReadMonitoring
    \/ HttpGetReadDb \/ HttpGetReturn
SpecState == Init /\ [][NextState]_vars

\* the speech requests against the TTSWorker, with and without an engine;
\* the worker thread and a handler that has begun go on while they can
InitSpeech == Start /\ fn = NoFn /\ focus = {} /\ tts_engine \in BOOLEAN
NextSpeech == HttpSendStep \/ TtsStep
SpecSpeech ==
    /\ InitSpeech /\ [][NextSpeech]_vars
    /\ WF_vars(TtsStep)
    /\ WF_vars(HttpSendCheck \/ HttpSendAdd \/ HttpSendOk \/ HttpSendReturn)

\* the speech requests against the TTSWorker while the window is closed:
\* on_close with no Monitor created (stop() has nothing to join), the
\* send_message handler and the worker; the threads are scheduled
InitClose == Start /\ fn = NoFn /\ focus = {} /\ tts_engine = TRUE
NextClose ==
    \/ UiCloseStep \/ UiStopSet \/ UiStopLabels \/ UiUpdAcquire \/ UiUpdWrite
    \/ HttpSendStep \/ TtsStep \/ TtsTimeout
SpecClose ==
    /\ InitClose /\ [][NextClose]_vars
    /\ WF_vars(TtsStep \/ TtsTimeout)
    /\ WF_vars(HttpSendCheck \/ HttpSendAdd \/ HttpSendOk \/ HttpSendReturn)

\* the window, the monitor and the remote get_state and set_threshold,
\* recording the remote threshold writes
InitRemote == Start /\ fn = NoFn /\ focus = {"rem"} /\ tts_engine = TRUE
NextRemote ==
    \/ MonitorStep \/ UiPollStep \/ UiPollThreshSet \/ UiLocalStep
    \/ HttpStateStep
SpecRemote == InitRemote /\ [][NextRemote]_vars

\* the remote set_threshold against poll_ui, the pending push_settings job and
\* the running monitor, with the threads scheduled, both timers firing, a
\* handler that has the lock finishing, and every callback of the window
\* returning (poll_ui's drain of q_ui outruns the monitor, whose cycle lasts
\* a chunk and a delay)
UiReturns == []<>(ui_pc = "idle")
InitAdopt == Start /\ fn = NoFn /\ focus = {"adopt"} /\ tts_engine = TRUE
NextAdopt ==
    \/ MonitorStep \/ UiPollStep \/ UiPollThreshSet \/ UiPushJobFire
    \/ UiClickStart \/ HttpSetThreshold \/ HttpThresholdWrite
SpecAdopt ==
    /\ InitAdopt /\ [][NextAdopt]_vars
    /\ WF_vars(MonitorStep)
    /\ WF_vars(UiPollStep \/ UiPollThreshSet)
    /\ SF_vars(UiPollBegin)
    /\ SF_vars(UiPushJobFire)
    /\ UiReturns
    /\ WF_vars(HttpThresholdWrite)

\* the monitor started and stopped from the window, recording the levels it
\* puts and the ones poll_ui writes to shared state
NextStop == MonitorStep \/ UiPollStep \/ UiClickStart \/ UiClickStop
InitLevel == Start /\ fn = NoFn /\ focus = {"lvl"} /\ tts_engine = TRUE
SpecLevel == InitLevel /\ [][NextStop]_vars

\* the monitor started and stopped from the window, recording what it does
\* after a stop. The threads are scheduled, so each goes on while it can, and
\* the root.after(100, poll_ui) timer fires again and again whatever else the
\* window does.
InitStop == Start /\ fn = NoFn /\ focus = {"stp"} /\ tts_engine = TRUE
Scheduling ==
    /\ WF_vars(MonitorStep)
    /\ WF_vars(UiPollStep)
    /\ SF_vars(UiPollBegin)
SpecStop == InitStop /\ [][NextStop]_vars /\ Scheduling

\* the same threads under the same scheduling, recording the capture errors
InitErr == Start /\ fn = NoFn /\ focus = {"err"} /\ tts_engine = TRUE
SpecErr == InitErr /\ [][NextStop]_vars /\ Scheduling

\* the monitor started, stopped, failing and restarted from the window,
\* recording the audio streams its loops open and close
InitOverlap == Start /\ fn = NoFn /\ focus = {"ovl"} /\ tts_engine = TRUE
SpecOverlap == InitOverlap /\ [][NextStop]_vars

\* the start and stop requests of the window and of the remote page against
\* poll_ui and the monitor, recording the Monitor threads
InitOne == Start /\ fn = NoFn /\ focus = {"ovl"} /\ tts_engine = TRUE
NextOne == NextReq \/ UiClickStart \/ UiClickStop
SpecOne == InitOne /\ [][NextOne]_vars

\* every user of the lock: poll_ui, start, push_settings and the stop() made
\* for an error event on the main thread, get_state and set_threshold on the
\* WebServerThread, beside the Monitor. A thread inside a with block goes on, and a thread waiting for
\* the lock gets it if it is free again and again
InitLock == Start /\ fn = NoFn /\ focus = {} /\ tts_engine = TRUE
NextLock ==
    \/ MonitorStep \/ UiPollStep \/ UiPollThreshSet \/ UiClickStart
    \/ HttpStateStep
SpecLock ==
    /\ InitLock /\ [][NextLock]_vars
    /\ WF_vars(UiUpdWrite \/ UiCwReadStart \/ UiCwReadStop \/ UiCwClearStart
                 \/ UiCwClearStop)
    /\ WF_vars(HttpGetReadThreshold \/ HttpGetReadMonitoring \/ HttpGetReadDb
                 \/ HttpGetReturn \/ HttpThresholdWrite)
    /\ SF_vars(UiUpdAcquire) /\ SF_vars(UiCwAcquire)

\* the remote start and stop requests against poll_ui and the monitor,
\* recording the stop() calls made while nothing is monitoring
InitNoop == Start /\ fn = NoFn /\ focus = {"nop"} /\ tts_engine = TRUE
SpecNoop == InitNoop /\ [][NextReq]_vars

\* poll_ui and the HTTP handlers against the Monitor and the TTSWorker, no
\* thread scheduled in any particular way, in two arrangements:
\*   "win"  poll_ui with the start() and stop() it runs, the handlers that
\*          write the request flags, get_state taking the lock, the Monitor,
\*          and the worker with one accepted message to speak;
\*   "net"  send_message and set_threshold, the worker, and the Monitor once
\*          the operator has pressed Start.
OneMsg == [tag |-> 1, lead |-> 0, core |-> 1, trail |-> 0]
InitBlock ==
    /\ fn = NoFn
    /\ tts_engine = TRUE
    /\ \/ /\ focus = {"win"}
          /\ Built
          /\ tts_queue = <<OneMsg>>
          /\ sp = [NewSpeech EXCEPT !.sent = 1, !.enq = <<1>>]
       \/ /\ focus = {"net"}
          /\ Start
NextWin ==
    \/ MonitorStep \/ UiPollStep \/ HttpRequestStep
    \/ HttpGetAcquire \/ HttpGetReadThreshold \/ HttpGetReadMonitoring
    \/ HttpGetReadDb \/ HttpGetReturn
    \/ TtsStep
NextNet ==
    \/ MonitorStep
    \/ UiClickStart \/ UiStartCheck \/ UiStartRun \/ UiPushBegin \/ UiPushPut
    \/ UiUpdAcquire \/ UiUpdWrite
    \/ HttpSetThreshold \/ HttpThresholdWrite \/ HttpSendStep \/ TtsStep
NextBlock ==
    \/ "win" \in focus /\ NextWin
    \/ "net" \in focus /\ NextNet
SpecBlock == InitBlock /\ [][NextBlock]_vars

\* the operator at the window with the calibration, the timers and the
\* monitor
InitCal == Start /\ fn = NoFn /\ focus = {} /\ tts_engine = TRUE
NextCal ==
    \/ MonitorStep \/ UiPollStep \/ UiClickStart \/ UiClickStop
    \/ UiPushJobFire \/ UiCalStep
SpecCal == InitCal /\ [][NextCal]_vars

\* ---- the claims ------------------------------------------------------------

\* the main thread holds the lock where update_*, get_state and
\* check_web_requests read and write; the WebServerThread likewise
UiInSection == ui_pc \in {"upd_wr", "cw_rd_s", "cw_rd_t", "cw_clr_s", "cw_clr_t"}
HttpInSection ==
    http_pc \in {"gs_rd_th", "gs_rd_mon", "gs_rd_db", "gs_rel", "th_wr",
                 "start_w", "stop_w"}

\* C1: a start or stop request, made at any moment, is returned as true by
\* exactly one later check_web_requests call. Never lost: while a request is
\* written and not yet read by a call, its flag is still set. Never delivered
\* twice: a flag is set with no unread request only inside the call that has
\* read it and is about to clear it.
C1_RequestExactlyOnce ==
    /\ req.undS => web_start_requested
    /\ req.undT => web_stop_requested
    /\ (web_start_requested /\ ~req.undS) => ui_pc \in {"cw_rd_t", "cw_clr_s"}
    /\ (web_stop_requested /\ ~req.undT) => ui_pc \in {"cw_clr_s", "cw_clr_t"}

\* C2: with both flags false, one start request and then two successive
\* check_web_requests calls, no request written meanwhile: the first call
\* returns (true, false), the second (false, false); the same for one stop
\* request with (false, true).
C2_SingleRequestTwoCalls ==
    LET c == req.call
        undisturbed == c.ret /\ c.qS /\ c.qT
    IN  /\ (undisturbed /\ c.base /\ c.cS = 1 /\ c.cT = 0) => c.res = <<TRUE, FALSE>>
        /\ (undisturbed /\ c.base /\ c.cS = 0 /\ c.cT = 1) => c.res = <<FALSE, TRUE>>
        /\ (undisturbed /\ c.pfirst # "none" /\ c.cS = 0 /\ c.cT = 0)
               => c.res = <<FALSE, FALSE>>

\* C2's case: the second call after a single start request has returned
C2_Witness ==
    /\ req.call.ret /\ req.call.pfirst = "start"
    /\ req.call.qS /\ req.call.qT /\ req.call.cS = 0 /\ req.call.cT = 0
    /\ req.call.res = <<FALSE, FALSE>>

\* C3: any number (one or more) of start requests made between two
\* consecutive calls makes the next call report start, and the call after it
\* report no start when no start request was written since; the same for stop.
C3_RequestsIdempotent ==
    LET c == req.call
    IN  /\ (c.ret /\ c.cS >= 1) => c.res[1]
        /\ (c.ret /\ c.cT >= 1) => c.res[2]
        /\ (c.ret /\ c.kS /\ c.cS = 0 /\ c.qS) => ~c.res[1]
        /\ (c.ret /\ c.kT /\ c.cT = 0 /\ c.qT) => ~c.res[2]

\* C3's case: a call that began with MaxReq start requests written has
\* reported start
C3_Witness ==
    /\ req.call.ret /\ req.call.cS = MaxReq /\ req.call.qS
    /\ req.call.res[1]

\* C4: whoever reads or writes threshold, is_monitoring, current_db or a
\* request flag holds the lock while doing so, and so the two threads are
\* never both inside such a section.
C4_SectionsHoldLock ==
    /\ UiInSection => lock = "ui"
    /\ HttpInSection => lock = "http"
    /\ ~(UiInSection /\ HttpInSection)

\* C5: the snapshot get_state has put together is the triple the three
\* fields hold at that instant.
C5_SnapshotConsistent ==
    http_pc = "gs_rel" =>
        http_snap = [threshold |-> threshold, is_monitoring |-> is_monitoring,
                     current_db |-> current_db]

\* C5's case: a snapshot is complete while the main thread waits for the lock
\* with a different threshold to write
C5_Witness ==
    /\ http_pc = "gs_rel"
    /\ ui_pc = "upd_acq" /\ ui_upd.f = "threshold"
    /\ ui_upd.v # http_snap.threshold
    /\ http_snap.is_monitoring /\ http_snap.current_db # InitDb

\* the monitor is inside a capture cycle, past the drain
MonInCycle == mon_pc \in {"capture", "put_db", "compare", "tone", "delay"}

\* C6: in a completed cycle the tone was invoked once if the level is above
\* the threshold of the snapshot in use and not at all otherwise, and the
\* level was reported before the tone was invoked.
C6_AlertIffAbove ==
    /\ mon_pc = "delay" =>
          /\ cyc.db = 1
          /\ cyc.tones = IF mon_db > settings.thresh THEN 1 ELSE 0
    /\ mon_pc = "tone" => (cyc.db = 1 /\ cyc.tones = 0)
    /\ mon_pc \in {"capture", "put_db", "compare"} => cyc.tones = 0

\* C6's case: a cycle whose level equals the threshold ends without a tone
C6_Witness ==
    mon_pc = "delay" /\ mon_db = settings.thresh /\ cyc.tones = 0 /\ cyc.db = 1

\* C7: through a cycle the loop holds the one snapshot it held when the
\* drain at the top ended, which is the latest one put into q_cmd by then;
\* the threshold compared against and the shape played come from it,
\* whatever is pushed meanwhile.
C7_SnapshotPerCycle ==
    /\ MonInCycle => (settings = cyc.held /\ cyc.held = cyc.last)
    /\ mon_pc \in {"tone", "delay"} => cyc.usedThresh = cyc.held.thresh
    /\ (mon_pc = "delay" /\ cyc.tones = 1) => cyc.usedShape = cyc.held.shape

\* C7's case: a tone was played in a cycle during which another threshold
\* and another shape were pushed
C7_Witness ==
    /\ mon_pc = "delay" /\ cyc.tones = 1
    /\ q_cmd # <<>>
    /\ Head(q_cmd).thresh # cyc.usedThresh
    /\ Head(q_cmd).shape # cyc.usedShape

\* C8: a failed capture puts one error event and no level, plays no tone and
\* ends the thread; nothing is captured, reported or played until start()
\* creates a new Monitor.
C8_CaptureErrorIsFatal ==
    /\ mon_pc = "err_set" => (cyc.errs = 1 /\ cyc.db = 0 /\ cyc.tones = 0)
    /\ err.pending =>
          /\ mon_pc \in {"err_set", "dead"}
          /\ err.caps = 0 /\ err.dbs = 0 /\ err.tones = 0

\* C8's case: the thread has ended on a capture error, the main thread has
\* handled the event and polled again
C8_Witness ==
    /\ err.pending /\ err.handled /\ mon_pc = "dead"
    /\ ui_pc = "poll_th" /\ q_ui = <<>>

\* C9: once poll_ui has handled the error event, and until a start, the
\* status shown is the error status.
C9_ErrorStatusShown == err.handled => status_label = ErrorStatus

\* C10: a tone that fails leaves the loop running: it goes on to the delay
\* and to the top, puts no error event, sets no stop signal, and from the top
\* goes into the next cycle unless stop() has set the signal.
C10_PlaybackErrorNotFatal ==
    /\ [](cyc.toneFail => (mon_pc \in {"delay", "top"} /\ cyc.errs = 0))
    /\ [][(mon_pc = "tone" /\ mon_pc' # "tone")
             => (mon_pc' = "delay" /\ q_ui' = q_ui /\ stop_evt' = stop_evt)]_vars
    /\ [][(cyc.toneFail /\ mon_pc = "top" /\ ~stop_evt /\ mon_pc' # "top")
             => mon_pc' = "drain"]_vars

\* C10's case: the loop is back at the top after a tone that failed, with no
\* stop signal
C10_Witness == cyc.toneFail /\ mon_pc = "top" /\ ~stop_evt

\* C11: once stop() has set the stop signal on a live Monitor, the loop does
\* at most what is left of the cycle in progress (at most one capture, one
\* level event and one tone), begins no capture after it is next at the top
\* of the loop, stays at the top until it ends, and does end.
C11_CooperativeStop ==
    /\ [](stp.on =>
            /\ stp.caps <= 1 /\ stp.dbs <= 1 /\ stp.tones <= 1
            /\ ~stp.late
            /\ (stp.top => mon_pc = "top"))
    /\ ((stop_evt /\ MonitorAlive) ~> mon_pc = "dead")

\* C11's case: the stop signal was set in mid-cycle, and the loop has put its
\* level, played its tone and come back to the top
C11_Witness ==
    /\ stp.on /\ stp.top /\ stp.caps = 1 /\ stp.dbs = 1 /\ stp.tones = 1
    /\ mon_pc = "top" /\ stop_evt

\* C12: every level poll_ui writes to current_db is the oldest level put and
\* not yet written, so levels reach current_db in the order their cycles put
\* them; and from the moment poll_ui finds q_ui empty until it takes the next
\* level, current_db is the last level that had been put at that moment.
C12_LevelIsLatest ==
    /\ lvl.inorder
    /\ lvl.drained => current_db = lvl.at

\* C12's case: poll_ui is writing a level while two later levels that differ
\* wait in q_ui
C12_Witness ==
    /\ ui_pc = "upd_wr" /\ ui_upd.f = "current_db"
    /\ Len(q_ui) = 2
    /\ q_ui[1][1] = "DB" /\ q_ui[2][1] = "DB" /\ q_ui[1][2] # q_ui[2][2]
    /\ Len(lvl.pending) = 3

\* C13: set_threshold(v) leaves v in shared state when it returns and changes
\* neither is_monitoring nor current_db; until something else writes the
\* threshold, shared state holds v and a get_state snapshot reports v,
\* monitoring or not.
C13_ThresholdAppliesAtOnce ==
    /\ [][(http_pc = "th_wr" /\ http_pc' = "idle")
             => /\ threshold' = http_arg
                /\ is_monitoring' = is_monitoring
                /\ current_db' = current_db]_vars
    /\ [](rem.fresh => threshold = rem.v)
    /\ []((rem.fresh /\ http_pc = "gs_rel") => http_snap.threshold = rem.v)

\* C13's case: while monitoring, get_state has a snapshot with the threshold
\* set_threshold wrote, which the window does not show yet
C13_Witness ==
    /\ rem.fresh /\ http_pc = "gs_rel"
    /\ http_snap.threshold = rem.v /\ rem.v # th_var
    /\ http_snap.is_monitoring /\ MonitorAlive

\* C14: a threshold v written by set_threshold while the monitor runs, with
\* no later change of the threshold from the window or from another request,
\* becomes the threshold of the settings the loop holds (unless the monitor
\* ends first).
C14_RemoteThresholdAdopted ==
    \A v \in ThreshVals :
        (rem.on /\ rem.run /\ rem.v = v /\ MonitorAlive)
            ~> \/ settings.thresh = v
               \/ ~MonitorAlive
               \/ ~(rem.on /\ rem.v = v)

\* a is the beginning of b
IsPrefix(a, b) == Len(a) <= Len(b) /\ a = SubSeq(b, 1, Len(a))

\* C15: the worker takes the messages, and speaks them, in the order they
\* were put into tts_queue; all the messages put before the one it is
\* speaking, and all those it began to speak before it, have finished or
\* failed.
C15_SpeechInOrder ==
    /\ IsPrefix(sp.deq, sp.enq)
    /\ IsPrefix(sp.started, sp.enq)
    /\ \A i \in 1..(Len(sp.started) - 1) : sp.started[i] \in sp.ended
    /\ tts_pc = "say" =>
          /\ sp.started # <<>> /\ tts_msg.tag = sp.started[Len(sp.started)]
          /\ \A i \in 1..Len(sp.enq) :
                (\E j \in (i + 1)..Len(sp.enq) : sp.enq[j] = tts_msg.tag)
                    => sp.enq[i] \in sp.ended

\* C15's case: the worker speaks the second message, the first having
\* failed, while a third waits
C15_Witness ==
    /\ tts_pc = "say" /\ Len(sp.started) = 2
    /\ sp.started[1] \in sp.failed
    /\ Len(tts_queue) = 1

\* the elements of a sequence
Range(q) == {q[i] : i \in 1..Len(q)}
NoRepeat(q) == \A i, j \in 1..Len(q) : q[i] = q[j] => i = j

\* C16: a message put into tts_queue is taken by the worker once: it is in
\* the queue or has been taken, never both and never twice, and it is taken
\* in the end; it is spoken at most once; a message whose speech raised is
\* not in the queue and not in the worker's hands again.
C16_DequeuedOnce ==
    /\ [](/\ NoRepeat(sp.deq) /\ NoRepeat(sp.started) /\ NoRepeat(sp.enq)
          /\ Range(sp.deq) \cup {m.tag : m \in Range(tts_queue)} = Range(sp.enq)
          /\ Len(sp.deq) + Len(tts_queue) = Len(sp.enq)
          /\ \A t \in sp.failed :
                /\ t \notin {m.tag : m \in Range(tts_queue)}
                /\ tts_msg.tag # t)
    /\ \A t \in 1..MaxMsgs : (t \in Range(sp.enq)) ~> (t \in Range(sp.deq))

\* C16's case: a message's speech has raised, the worker has gone on to the
\* next one and finished it
C16_Witness ==
    /\ Len(sp.deq) = 2 /\ sp.deq[1] \in sp.failed
    /\ sp.deq[2] \in sp.ended \ sp.failed
    /\ tts_pc = "get" /\ tts_queue = <<>>

\* C17: send_message answers by the length of the text without its leading
\* and trailing whitespace: 0 gives success false with the empty-message
\* error, more than 500 gives success false with the length error, 1 to 500
\* gives success true.
C17_ValidatesTrimmedText ==
    (http_pc = "sm_ret" /\ ~sp.bad) =>
        LET n == sp.raw.core
        IN  /\ n = 0 => http_res = [success |-> FALSE, error |-> "No message provided"]
            /\ n > 500 => http_res = [success |-> FALSE, error |-> "Message too long"]
            /\ (1 <= n /\ n <= 500) => http_res.success

\* C17's case: a text of 500 characters between two blanks (502 in all) has
\* been accepted
C17_Witness ==
    /\ http_pc = "sm_ret" /\ ~sp.bad
    /\ sp.raw.core = 500 /\ sp.raw.lead = 1 /\ sp.raw.trail = 1
    /\ http_res.success

\* the text of a request passes send_message's validation
ValidText(m) == m.core >= 1 /\ m.core <= 500

\* C18: a request that send_message rejects (empty, too long, or malformed)
\* puts nothing into tts_queue and changes no field of shared state: the
\* queue grows only by the trimmed text of a request that is valid, no step
\* of the handler changes a shared field, and a rejected request is not among
\* the messages queued. So every message in the queue, or taken from it, is
\* at least 1 and at most 500 characters long.
C18_RejectedNeverQueued ==
    /\ [][tts_queue' # tts_queue /\ Len(tts_queue') >= Len(tts_queue)
             => /\ ~sp.bad /\ ValidText(sp.raw)
                /\ tts_queue' = Append(tts_queue, [sp.raw EXCEPT !.lead = 0,
                                                                 !.trail = 0])]_vars
    /\ [][sharedVars' = sharedVars]_vars
    /\ []((http_pc = "sm_ret" /\ ~http_res.success) => sp.sent \notin Range(sp.enq))
    /\ [](\A m \in Range(tts_queue) \cup ({tts_msg} \ {NoMsg}) :
             MsgLen(m) >= 1 /\ MsgLen(m) <= 500)

\* C18's case: a text of 501 characters has been rejected while an earlier
\* message waits in the queue, which holds nothing else
C18_Witness ==
    /\ http_pc = "sm_ret" /\ ~http_res.success
    /\ sp.raw.core = 501
    /\ Len(tts_queue) = 1 /\ tts_queue[1].tag < sp.sent

\* C19: the handler of a valid request never waits for the worker: wherever
\* it is between the validation and its answer, its next step can be taken
\* whatever the queue holds and whatever the worker is doing, and the answer
\* it is about to send after add_tts_message is success true.
C19_EnqueueDoesNotWait ==
    /\ http_pc = "sm_check" => ENABLED HttpSendCheck
    /\ http_pc = "sm_add" => ENABLED HttpSendAdd
    /\ http_pc = "sm_ok" => ENABLED HttpSendOk
    /\ (http_pc = "sm_ret" /\ ~sp.bad /\ ValidText(sp.raw)) => http_res.success

\* C19's case: success is about to be returned while the request's own
\* message waits in the queue behind another and the worker is speaking an
\* earlier one
C19_Witness ==
    /\ http_pc = "sm_ret" /\ http_res.success
    /\ Len(tts_queue) = 2 /\ tts_queue[2].tag = sp.sent
    /\ tts_pc = "say"

\* C20: without a speech engine (pyttsx3.init() raised) no message is ever
\* queued or spoken: the queue stays empty and the worker idle, while a valid
\* request is still answered success true.
C20_NoEngineDropsMessages ==
    ~tts_engine =>
        /\ tts_queue = <<>> /\ sp.enq = <<>>
        /\ sp.deq = <<>> /\ sp.started = <<>> /\ tts_pc = "get"
        /\ (http_pc = "sm_ret" /\ ~sp.bad /\ ValidText(sp.raw)) => http_res.success

\* C20's case: without an engine, the last of several valid requests is
\* answered success true
C20_Witness ==
    /\ ~tts_engine
    /\ http_pc = "sm_ret" /\ http_res.success /\ ValidText(sp.raw)
    /\ sp.sent = MaxMsgs

\* C21: a stop request consumed while is_monitoring is false and no Monitor
\* is alive changes nothing about monitoring: the call that consumes it
\* clears the stop flag, and through the stop() poll_ui then runs, and until
\* that poll ends, threshold and current_db are what they were, no Monitor
\* has been created or started, and is_monitoring is false.
C21_StopWhileIdleIsNoop ==
    /\ [](nop.on =>
            /\ threshold = nop.th /\ current_db = nop.db
            /\ mon_pc = nop.mon /\ ~MonitorAlive
            /\ ~is_monitoring)
    /\ [][(ui_pc = "cw_clr_t" /\ ui_pc' # "cw_clr_t")
             => ~web_stop_requested']_vars

\* C21's case: stop() has returned to poll_ui, which had consumed a stop
\* request with nothing monitoring and no Monitor ever created
C21_Witness ==
    /\ nop.on /\ nop.done /\ ui_pc = "poll_th"
    /\ mon_pc = "none" /\ ~web_stop_requested /\ ~is_monitoring

\* C22: whenever poll_ui consumes a start request while is_monitoring is
\* false (after a stop() or after a capture error was handled), the start()
\* it calls creates a Monitor, which it then starts.
C22_StartAlwaysRearms ==
    [][(/\ ui_pc = "st_chk" /\ Head(ui_stack) = "poll_stop"
        /\ ~is_monitoring
        /\ ui_pc' # "st_chk")
          => mon_pc' = "created"]_vars

\* the HTTP handler that holds the lock, between acquiring and releasing it
HttpHoldsLock == http_pc \in {"gs_rd_th", "gs_rd_mon", "gs_rd_db", "gs_rel", "th_wr"}

CalFrame ==
    <<threshold, th_var, is_monitoring, current_db, web_start_requested,
      web_stop_requested, q_cmd>>

\* a step of calibrate itself (not of a timer callback run by its update())
CalOwnStep ==
    \/ calib_window' # calib_window
    \/ messagebox' # messagebox
    \/ ui_pc' # ui_pc /\ {ui_pc, ui_pc'} \cap {"cal_rec", "cal_test"} # {}

\* C24: no step of a calibration that ends with an error (no device, a
\* capture that raises, a capture that is empty or all zero) changes the
\* threshold in shared state or in the window, is_monitoring, current_db, a
\* request flag or q_cmd; nor does any step before the capture has ended.
C24_FailedCalibrationChangesNothing ==
    [][(CalOwnStep /\ rec_flat.is # "level") => UNCHANGED CalFrame]_vars

\* C24's case: a calibration has ended on an all-zero capture while the
\* monitor runs and a level waits in q_ui
C24_Witness ==
    /\ messagebox = NoAudio /\ ~calib_window /\ ui_pc = "idle"
    /\ is_monitoring /\ MonitorAlive /\ q_ui # <<>>

\* C25: a calibration that succeeds does not write the threshold in shared
\* state: no step taken between its capture and its return changes it.
C25_CalibrationLeavesThreshold ==
    [][("cal_done" \in Range(ui_stack)) => threshold' = threshold]_vars

\* round(n/d) for n >= 0, d > 0, a tie going to the even neighbour
Round(n, d) ==
    LET q == n \div d
        r == n % d
    IN  IF 2 * r < d THEN q
        ELSE IF 2 * r > d THEN q + 1
        ELSE IF q % 2 = 0 THEN q ELSE q + 1

\* C26: for every duration of 0..MaxMs ms and every shape, gen_wave makes
\* round(44100 * ms / 1000) samples.
C26_WaveLength ==
    (fn.f = "gen_wave" /\ fn.done) => fn.len = Round(Fs * fn.ms, 1000)

\* C27: the level of a buffer of zeros is computed without an error, is
\* finite and is at most -180 dB.
C27_SilenceIsFinite ==
    (fn.f = "level" /\ fn.done /\ SumSq(fn.buf) = 0) =>
        /\ ~fn.out.raised
        /\ fn.out.db <= -180 * 1000
        /\ fn.out.db \in Int

\* C27's case: the level of a buffer of MaxBuf zeros has been computed
C27_Witness ==
    /\ fn.f = "level" /\ fn.done
    /\ Len(fn.buf) = MaxBuf /\ \A i \in 1..MaxBuf : fn.buf[i] = 0
    /\ fn.out.db = -200000

\* C28: the drain at the top of a cycle takes every snapshot waiting in q_cmd
\* without waiting for one, and the cycle runs with the last of them: the
\* snapshot held when the drain ended is the one that was put last (the ones
\* put before it since the previous drain were taken and replaced before any
\* cycle ran), and a drain that found nothing leaves the snapshot it began
\* with.
C28_DrainKeepsLast ==
    /\ mon_pc = "drain" => ENABLED (MonDrainGet \/ MonDrainEmpty)
    /\ Len(drn.q) = Len(q_cmd)
    /\ \A i \in DOMAIN drn.q : drn.q[i] <=> (i = Len(drn.q))
    /\ MonInCycle =>
          /\ drn.used
          /\ drn.got = 0 => settings = drn.before
    /\ (MonInCycle /\ drn.got = 0) => drn.kAt = 0

C28_Witness ==
    /\ MonInCycle
    /\ drn.kAt = 2 /\ drn.got = 2 /\ drn.used
    /\ drn.first # settings

\* C29: capture by a Monitor loop and an alert tone played by a Monitor loop
\* never overlap, whatever starts, stops, errors and restarts happen: no loop
\* opens an audio stream while a loop has one open, the only stream open is
\* the one of the step the one live loop is at, and a loop is created only
\* when none is alive.
C29_CaptureAndToneNeverOverlap ==
    /\ ~ovl.clash
    /\ ovl.busy = (IF mon_pc \in {"capture", "tone"} THEN mon_pc ELSE "none")
    /\ mon_pc = "created" => ovl.busy = "none"

C29_Witness ==
    /\ mon_pc = "capture" /\ ovl.busy = "capture"
    /\ ovl.last = "tone" /\ ovl.loops = 2

\* C30: a speech that raises does not end the TTSWorker: the worker is back at
\* its get, and every message put into tts_queue, before or after the failure,
\* is still taken by the worker and has its say() called.
C30_WorkerSurvivesFailure ==
    /\ [](tts_pc \in {"get", "say", "done"})
    /\ [][sp'.failed # sp.failed => tts_pc' = "get"]_vars
    /\ \A t \in 1..MaxMsgs :
          (tts_engine /\ sp.failed # {} /\ t \in Range(sp.enq))
             ~> (t \in Range(sp.deq) /\ t \in Range(sp.started))

C30_Witness ==
    \E i, j \in DOMAIN sp.started :
       /\ i < j
       /\ sp.started[i] \in sp.failed
       /\ sp.started[j] \in sp.ended \ sp.failed

\* C31: once TTSWorker.stop() has set stop_event the worker thread ends (after
\* the speech in progress or at its next empty poll); it calls say() for at
\* most one message after stop_event was set; and when it has ended nothing
\* is taken from tts_queue or spoken any more.
C31_WorkerStopsCooperatively ==
    /\ stop_event ~> (tts_pc = "dead")
    /\ [](sp.late <= 1)
    /\ [][tts_pc = "dead" =>
             /\ tts_pc' = "dead"
             /\ sp'.deq = sp.deq /\ sp'.started = sp.started
             /\ Len(tts_queue') >= Len(tts_queue)]_vars

C31_Witness ==
    /\ tts_pc = "dead" /\ stop_event
    /\ sp.late = 1
    /\ sp.started # <<>> /\ sp.started[Len(sp.started)] \in sp.ended

\* the greater of two levels
Max(a, b) == IF a > b THEN a ELSE b

\* C32 as stated: the suggested threshold is max(a + 10, -50) dB for every
\* ambient level a.
C32_SuggestedIsAmbientPlusTen ==
    (fn.f = "suggest" /\ fn.done) =>
        fn.new_value = Max(fn.ambient + 1000, 100 * CalFloor)

\* C32, amended: the suggested threshold is max(round(a + 10, 1), -50) dB: a
\* whole number of tenths, never below -50 dB, within 0.05 dB of
\* max(a + 10, -50), and equal to it when a is a whole number of tenths.
C32_SuggestedIsRoundedAndFloored ==
    (fn.f = "suggest" /\ fn.done) =>
        /\ fn.new_value >= 100 * CalFloor
        /\ fn.new_value % 10 = 0
        /\ Abs(fn.new_value - Max(fn.ambient + 1000, 100 * CalFloor)) <= 5
        /\ fn.ambient % 10 = 0 =>
              fn.new_value = Max(fn.ambient + 1000, 100 * CalFloor)

\* C32's cases: a level above the floor that is no whole number of tenths
C32_Witness ==
    /\ fn.f = "suggest" /\ fn.done
    /\ fn.ambient % 10 = 4
    /\ fn.new_value > 100 * CalFloor
    /\ fn.new_value = fn.ambient + 1000 - 4

\* C33: at most one Monitor thread is alive at any time, whatever start and
\* stop requests come from the window and the remote page, also when stop()'s
\* join has timed out and after capture errors: the threads started and not
\* ended are none, or the one the monitor variable names.
C33_OneMonitorAlive ==
    /\ ovl.alive <= 1
    /\ ovl.alive = (IF MonitorAlive THEN 1 ELSE 0)

\* C33's case: the second Monitor created is alive, the first one has ended
C33_Witness ==
    /\ ovl.loops = 2 /\ ovl.alive = 1 /\ MonitorAlive
    /\ is_monitoring

\* C34: when get_state reads is_monitoring as false, no Monitor loop is
\* capturing audio or playing an alert.
C34_FlagNeverUnderReports ==
    [][(http_pc = "gs_rd_mon" /\ http_pc' = "gs_rd_db" /\ ~is_monitoring)
          => mon_pc \notin {"capture", "tone"}]_vars

\* C35: the stop() poll_ui makes for an "ERR" event that an earlier Monitor
\* put, before the Monitor of now was created, never sets the stop signal of
\* the Monitor of now.
C35_StaleErrorStopsNothing == ~ovl.hit

\* C36: while shared state holds a threshold that set_threshold wrote and
\* nothing has written since, the update_threshold(th_var.get()) of
\* push_settings does not replace it with another value (the one the scale
\* still holds from before the request).
C36_PushKeepsRemoteThreshold ==
    [][(ui_pc = "upd_wr" /\ ui_pc' # "upd_wr" /\ Head(ui_stack) = "ps_put"
          /\ rem.fresh) => threshold' = rem.v]_vars

\* C37: when check_web_requests has returned both a start and a stop request,
\* poll_ui calls start() first and stop() second, and when stop() has
\* returned a Monitor exists with its stop signal set and is_monitoring is
\* false, whatever was the case before.
C37_StartThenStop ==
    /\ (ovl.both /\ ui_pc \in {"sp_set", "sp_join", "sp_lbl"}
            /\ "poll_th" \in Range(ui_stack))
          => ovl.did = <<"start", "stop">>
    /\ (ovl.both /\ ui_pc = "poll_th") =>
          /\ ovl.did = <<"start", "stop">>
          /\ mon_pc # "none" /\ stop_evt
          /\ ~is_monitoring

\* C37's case: both requests were consumed with nothing monitoring; start()
\* has started a Monitor, stop() has returned and the thread is still alive
C37_Witness ==
    /\ ovl.both /\ ui_pc = "poll_th"
    /\ ovl.loops = 1 /\ MonitorAlive /\ stop_evt

\* C38: a start() called while the Monitor thread is alive returns at once
\* and changes nothing: no Monitor is created or started, nothing is put into
\* q_cmd, and threshold, is_monitoring and current_db are as they were.
C38_StartWhileAliveIsNoop ==
    [][(ui_pc = "st_chk" /\ MonitorAlive /\ ui_pc' # "st_chk") =>
          /\ ui_pc' = Head(ui_stack)
          /\ UNCHANGED <<mon_pc, stop_evt, settings, q_cmd, threshold,
                         is_monitoring, current_db, ui_upd>>
          /\ ovl'.loops = ovl.loops /\ ovl'.alive = ovl.alive]_vars

\* C38's case: the start() of this poll has returned with the Monitor, which
\* an earlier stop() left alive with its stop signal set, still alive, and
\* is_monitoring still false
C38_Witness ==
    /\ ui_pc = "poll_stop" /\ ovl.did = <<"start">>
    /\ MonitorAlive /\ stop_evt /\ ~is_monitoring
    /\ ovl.loops = 1

C40_ErrorClearsMonitoring ==
    /\ (err.pending /\ ~err.handled) ~> (err.handled \/ ~err.pending)
    /\ [](err.handled => ~is_monitoring)
    /\ [][(err.handled /\ err'.handled) => ~is_monitoring']_vars

\* C40's case: the error of the Monitor was handled, poll_ui has returned and
\* the window shows monitoring as stopped
C40_Witness ==
    /\ err.pending /\ err.handled
    /\ ~is_monitoring /\ ui_pc = "idle" /\ start_btn
    /\ mon_pc = "dead"
====
